---- MODULE Spec2Model ----
(***************************************************************************)
(* State machine of the party-game room: the rows of the managed store     *)
(* (one room, its players, rounds and submissions) and the request         *)
(* handlers that read and write them.  Every handler is a sequence of      *)
(* store calls; each store call is one atomic step, and the handler's      *)
(* local variables (what it read so far) live in its request slot, so      *)
(* that requests of several callers interleave between store calls.        *)
(*                                                                         *)
(* Nullable columns and results are option sets: {} is null, {v} is v.     *)
(* Timestamps are offsets from the instant of the write that sets them     *)
(* (Date.now() is the origin), in milliseconds.                            *)
(***************************************************************************)
EXTENDS Integers, Sequences, FiniteSets, TLC

VARIABLES room, players, rounds, nextRoundId, subs, req, view, lastAdvanceKey,
          votes, scores, rooms, members, codeGen, twin

vars == <<room, players, rounds, nextRoundId, subs, req, view, lastAdvanceKey,
          votes, scores, rooms, members, codeGen, twin>>

\* the votes and scores rows of the room, which the rematch handler deletes
scoring == <<votes, scores>>
\* the rooms and players tables as the create and join handlers see them:
\* every room by its join_code, every player by room and display_name
directory == <<rooms, members>>
\* what lies beside the room's rows: a call of generateJoinCode under way
\* (its length, i and out), and the room and round rows of a second
\* deployment, whose advance handler is the one without phase guards
library == <<codeGen, twin>>

-----------------------------------------------------------------------------
(* Bounds of the model *)

\* rows the rounds table may hold (inserts are disabled beyond it)
MaxRounds == 2
\* a rematch is requested only while fewer round ids than this are used up
MaxRematchRoundId == 3
\* largest explicit rooms.total_rounds value tried (null is tried as well)
MaxTotalRounds == 2
\* the explicit rooms.round_seconds value tried (null is tried as well)
CustomRoundSeconds == 30
\* largest length generateJoinCode is called with
MaxCodeLength == 3
\* Math.random() returns one of the multiples of 1/RandomSteps in [0, 1)
RandomSteps == 64

(* Program constants *)

DefaultTotalRounds == 3
DefaultRoundSeconds == 45
PromptRevealMs == 5000
\* rooms.max_players as the create handler sets it
CreateMaxPlayers == 8
\* for (let attempt = 0; attempt < 5; attempt++)
CreateAttempts == 5

-----------------------------------------------------------------------------
(* Values *)

Null == {}
Some(v) == {v}
Get(o) == CHOOSE v \in o : TRUE
\* JavaScript's  o ?? d
Coalesce(o, d) == IF o = Null THEN d ELSE Get(o)
\* new Date(Date.now() + ms).toISOString(): ms after the instant of the write
After(ms) == Some(ms)
\* new Date().toISOString()
Now == After(0)

\* no call of generateJoinCode is under way
NoCodeGen == [length |-> 0, i |-> 0, out |-> <<>>, running |-> FALSE]
\* no second deployment
NoTwin == [room |-> Null, rounds |-> <<>>]

HOST == "host"
\* a player of another room: no player row of this room has its id
Outsider == "outsider"
Players == {"host", "p2", "p3"}
Slots == {1, 2}
Clients == {"host", "p2"}

\* the order of a round's phases; VOTING is declared by the client type only
PhaseOrder == <<"PROMPT", "GENERATING", "REVEAL", "RESULTS">>
Phases == {"PROMPT", "GENERATING", "REVEAL", "VOTING", "RESULTS"}
PhaseIndex(p) == CHOOSE i \in 1..Len(PhaseOrder) : PhaseOrder[i] = p

\* the static fallback list (its first entry stands for the eight: no handler
\* looks into a prompt text) and the remote generator's sanitized text
PROMPTS == <<"A Renaissance painting of ____ but it's actually ____">>
AiPrompt == "ai prompt"
\* generatePrompt() succeeds with a text or throws; the catch falls back
\* to pickRandomPrompt()
pickRandomPrompt == {PROMPTS[i] : i \in 1..Len(PROMPTS)}
PromptOutcomes == {AiPrompt} \cup pickRandomPrompt

\* A text of the remote model is a sequence of characters
Quotes == {"\"", "'"}
Whitespace == {" ", "\t"}

RECURSIVE StripLeft(_, _)
StripLeft(text, chars) ==
  IF text # <<>> /\ Head(text) \in chars THEN StripLeft(Tail(text), chars) ELSE text

RECURSIVE StripRight(_, _)
StripRight(text, chars) ==
  IF text # <<>> /\ text[Len(text)] \in chars
  THEN StripRight(SubSeq(text, 1, Len(text) - 1), chars)
  ELSE text

\* .replace(/\s+/g, " ")
RECURSIVE CollapseWhitespace(_)
CollapseWhitespace(text) ==
  IF text = <<>> THEN <<>>
  ELSE IF Head(text) \in Whitespace
  THEN <<" ">> \o CollapseWhitespace(StripLeft(text, Whitespace))
  ELSE <<Head(text)>> \o CollapseWhitespace(Tail(text))

\* .trim()
Trim(text) == StripRight(StripLeft(text, Whitespace), Whitespace)

\* .replace(/^["'\s]+|["'\s]+$/g, "").replace(/\s+/g, " ").trim()
sanitize(text) ==
  Trim(CollapseWhitespace(
         StripRight(StripLeft(text, Quotes \cup Whitespace), Quotes \cup Whitespace)))

\* the characters as the string the handler stores
RECURSIVE Text(_)
Text(chars) == IF chars = <<>> THEN "" ELSE Head(chars) \o Text(Tail(chars))

\* prompt.length < 6
MinPromptLength == 6

\* generatePrompt: res is what client.responses.create gives, null for a
\* call that throws, else output_text ?? ""; the result is the text
\* returned, or null when the function throws
generatePrompt(res) ==
  IF res = Null THEN Null
  ELSE LET out == sanitize(Get(res))
       IN IF out = <<>> THEN Null ELSE Some(Text(out))

\* generateFamilyFriendlyPrompt, the generator of the reroll handler
generateFamilyFriendlyPrompt(res) ==
  IF res = Null THEN Null
  ELSE LET prompt == sanitize(Get(res))
       IN IF prompt = <<>> \/ Len(prompt) < MinPromptLength THEN Null
          ELSE Some(Text(prompt))

\* try { prompt_text = await generate...() } catch { prompt_text =
\* pickRandomPrompt() }: the texts prompt_text may hold afterwards
PromptTexts(generated) == IF generated = Null THEN pickRandomPrompt ELSE generated

-----------------------------------------------------------------------------
(* Store queries *)

RoundIds == {rounds[i].id : i \in 1..Len(rounds)}
RoundById(id) == rounds[CHOOSE i \in 1..Len(rounds) : rounds[i].id = id]
RoundNumbers == {rounds[i].round_number : i \in 1..Len(rounds)}
MaxRoundNumber == CHOOSE n \in RoundNumbers : \A m \in RoundNumbers : m <= n

\* .order("round_number", desc).limit(1).maybeSingle(): the rows that may
\* come first (rows of equal round_number come in an unspecified order)
LatestRounds ==
  IF Len(rounds) = 0 THEN {}
  ELSE {rounds[i] : i \in {j \in 1..Len(rounds) :
                              rounds[j].round_number = MaxRoundNumber}}

RoundSnapshot(r) == [id |-> r.id, round_number |-> r.round_number, phase |-> r.phase]

ActivePlayers == {p \in Players : players[p].is_active}

TotalRounds == Coalesce(room.total_rounds, DefaultTotalRounds)
RoundSeconds == Coalesce(room.round_seconds, DefaultRoundSeconds)

NewRound(n, text) ==
  [id |-> nextRoundId, round_number |-> n, phase |-> "PROMPT",
   prompt_text |-> text, phase_ends_at |-> After(PromptRevealMs)]

ResetReady == [p \in Players |-> [players[p] EXCEPT !.is_ready = FALSE]]

-----------------------------------------------------------------------------
(* Request slots *)

Idle ==
  [kind |-> "none", pc |-> "idle", pid |-> HOST, st |-> "", rnd |-> Null,
   next |-> 0, nextReady |-> FALSE, updated |-> Null, code |-> 0,
   obs |-> Null, input |-> "", name |-> "", joinCode |-> "", attempt |-> 0,
   isFamilyFriendly |-> FALSE, err |-> ""]

\* the lowest free slot (where slots are interchangeable, a new request
\* takes it)
FreeSlot(s) == req[s].pc = "idle" /\ \A t \in Slots : t < s => req[t].pc # "idle"

Issue(s, kind, pid, pc) ==
  /\ req[s].pc = "idle"
  /\ req' = [req EXCEPT ![s] = [Idle EXCEPT !.kind = kind, !.pid = pid, !.pc = pc]]

\* the handler returns NextResponse.json(..., {status: code}); its locals
\* are gone with it
Respond(s, code) ==
  [Idle EXCEPT !.kind = req[s].kind, !.pid = req[s].pid, !.pc = "done",
               !.code = code, !.obs = req[s].obs]

At(s, kind, pc) == req[s].kind = kind /\ req[s].pc = pc

\* the response has been delivered; the slot is free again
Return(s) ==
  /\ req[s].pc = "done"
  /\ req' = [req EXCEPT ![s] = Idle]
  /\ UNCHANGED <<room, players, rounds, nextRoundId, subs, view, lastAdvanceKey, scoring, directory, library>>

-----------------------------------------------------------------------------
(***************************************************************************)
(* Initial state: a room in its lobby, as create and join leave it.  The   *)
(* create handler sets neither total_rounds nor round_seconds: they hold   *)
(* what the store's schema gives them, null or a value.                    *)
(***************************************************************************)

RoomSettings ==
  {<<Null, Null>>} \cup {<<Some(n), Some(CustomRoundSeconds)>> : n \in 1..MaxTotalRounds}

Init ==
  /\ room \in {[status |-> "LOBBY", ended_at |-> Null, is_family_friendly |-> FALSE,
                 total_rounds |-> c[1], round_seconds |-> c[2]] : c \in RoomSettings}
  /\ players = [p \in Players |->
                  [is_host |-> p = HOST, is_active |-> p # "p3", is_ready |-> FALSE]]
  /\ rounds = <<>>
  /\ nextRoundId = 1
  /\ subs = {}
  /\ req = [s \in Slots |-> Idle]
  /\ view = [c \in Clients |-> [status |-> "LOBBY", round |-> Null, advancing |-> FALSE]]
  /\ lastAdvanceKey = [c \in Clients |-> Null]
  /\ votes = {} /\ scores = {}
  /\ rooms = {} /\ members = {}
  /\ codeGen = NoCodeGen
  /\ twin = NoTwin

-----------------------------------------------------------------------------
(* POST /api/rounds/start, later variant *)

StartIssue(s, pid) ==
  /\ Issue(s, "start", pid, "s_room")
  /\ UNCHANGED <<room, players, rounds, nextRoundId, subs, view, lastAdvanceKey, scoring, directory, library>>

\* 1) lookup room
StartRoom(s) ==
  /\ At(s, "start", "s_room")
  /\ req' = [req EXCEPT ![s] =
       IF room.status = "ENDED" THEN Respond(s, 400)
       ELSE [req[s] EXCEPT !.pc = "s_last"]]
  /\ UNCHANGED <<room, players, rounds, nextRoundId, subs, view, lastAdvanceKey, scoring, directory, library>>

\* this step without the is_host test
StartLastAnyPlayer(s) ==
  /\ At(s, "start", "s_last")
  /\ \E last \in (IF Len(rounds) = 0 THEN {Null} ELSE {Some(r) : r \in LatestRounds}) :
       LET nextRoundNumber == (IF last = Null THEN 0 ELSE Get(last).round_number) + 1
           host == players[req[s].pid]
       IN req' = [req EXCEPT ![s] =
            IF nextRoundNumber > TotalRounds THEN Respond(s, 400)
            ELSE IF ~host.is_active THEN Respond(s, 400)
            ELSE [req[s] EXCEPT !.pc = "s_insert", !.next = nextRoundNumber]]
  /\ UNCHANGED <<room, players, rounds, nextRoundId, subs, view, lastAdvanceKey, scoring, directory, library>>

\* the earlier variant of this step: no guard on total_rounds
StartLastEarlier(s) ==
  /\ At(s, "start", "s_last")
  /\ \E last \in (IF Len(rounds) = 0 THEN {Null} ELSE {Some(r) : r \in LatestRounds}) :
       LET nextRoundNumber == (IF last = Null THEN 0 ELSE Get(last).round_number) + 1
           host == players[req[s].pid]
       IN req' = [req EXCEPT ![s] =
            IF ~host.is_active THEN Respond(s, 400)
            ELSE IF ~host.is_host THEN Respond(s, 403)
            ELSE [req[s] EXCEPT !.pc = "s_insert", !.next = nextRoundNumber]]
  /\ UNCHANGED <<room, players, rounds, nextRoundId, subs, view, lastAdvanceKey, scoring, directory, library>>

\* the guard on total_rounds, then 2) verify host (a player's is_host and
\* is_active never change, so reading them in this step loses no interleaving)
StartLast(s) ==
  /\ At(s, "start", "s_last")
  /\ \E last \in (IF Len(rounds) = 0 THEN {Null} ELSE {Some(r) : r \in LatestRounds}) :
       LET nextRoundNumber == (IF last = Null THEN 0 ELSE Get(last).round_number) + 1
           host == players[req[s].pid]
       IN req' = [req EXCEPT ![s] =
            IF nextRoundNumber > TotalRounds THEN Respond(s, 400)
            ELSE IF ~host.is_active THEN Respond(s, 400)
            ELSE IF ~host.is_host THEN Respond(s, 403)
            ELSE [req[s] EXCEPT !.pc = "s_insert", !.next = nextRoundNumber]]
  /\ UNCHANGED <<room, players, rounds, nextRoundId, subs, view, lastAdvanceKey, scoring, directory, library>>

\* 3) generate prompt, 4) create round in PROMPT phase
StartInsert(s, texts) ==
  /\ At(s, "start", "s_insert")
  /\ Len(rounds) < MaxRounds
  /\ \E text \in texts :
       rounds' = Append(rounds, NewRound(req[s].next, text))
  /\ nextRoundId' = nextRoundId + 1
  /\ req' = [req EXCEPT ![s] =
       [req[s] EXCEPT !.pc = "s_status", !.rnd = Some(nextRoundId)]]
  /\ UNCHANGED <<room, players, subs, view, lastAdvanceKey, scoring, directory, library>>

\* 5) set room status to IN_GAME
StartStatus(s) ==
  /\ At(s, "start", "s_status")
  /\ room' = [room EXCEPT !.status = "IN_GAME"]
  /\ req' = [req EXCEPT ![s].pc = "s_reset"]
  /\ UNCHANGED <<players, rounds, nextRoundId, subs, view, lastAdvanceKey, scoring, directory, library>>

\* the earlier variant of the last step: readiness is left as it is
StartResetEarlier(s) ==
  /\ At(s, "start", "s_reset")
  /\ req' = [req EXCEPT ![s] = Respond(s, 200)]
  /\ UNCHANGED <<room, players, rounds, nextRoundId, subs, view, lastAdvanceKey, scoring, directory, library>>

\* 6) reset readiness
StartReset(s) ==
  /\ At(s, "start", "s_reset")
  /\ players' = ResetReady
  /\ req' = [req EXCEPT ![s] = Respond(s, 200)]
  /\ UNCHANGED <<room, rounds, nextRoundId, subs, view, lastAdvanceKey, scoring, directory, library>>

\* texts: the prompt texts the generator and its fallback may produce
StartStep(s, texts) ==
  \/ StartRoom(s) \/ StartLast(s) \/ StartInsert(s, texts) \/ StartStatus(s)
  \/ StartReset(s)

-----------------------------------------------------------------------------
(* POST /api/players/ready, later variant *)

ReadyIssue(s, pid) ==
  /\ Issue(s, "ready", pid, "r_room")
  /\ UNCHANGED <<room, players, rounds, nextRoundId, subs, view, lastAdvanceKey, scoring, directory, library>>

\* this step without the test for an ended game
ReadyRoomAnyStatus(s) ==
  /\ At(s, "ready", "r_room")
  /\ req' = [req EXCEPT ![s] = [req[s] EXCEPT !.pc = "r_player", !.st = room.status]]
  /\ UNCHANGED <<room, players, rounds, nextRoundId, subs, view, lastAdvanceKey, scoring, directory, library>>

\* 1) find room
ReadyRoom(s) ==
  /\ At(s, "ready", "r_room")
  /\ req' = [req EXCEPT ![s] =
       IF room.status = "ENDED" THEN Respond(s, 400)
       ELSE [req[s] EXCEPT !.pc = "r_player", !.st = room.status]]
  /\ UNCHANGED <<room, players, rounds, nextRoundId, subs, view, lastAdvanceKey, scoring, directory, library>>

\* this step with the toggle written before the is_active test
ReadyPlayerToggleFirst(s) ==
  /\ At(s, "ready", "r_player")
  /\ LET player == players[req[s].pid]
     IN /\ players' = [players EXCEPT ![req[s].pid].is_ready = ~player.is_ready]
        /\ req' = [req EXCEPT ![s] =
             IF ~player.is_active THEN Respond(s, 400)
             ELSE [req[s] EXCEPT !.pc = "r_active"]]
  /\ UNCHANGED <<room, rounds, nextRoundId, subs, view, lastAdvanceKey, scoring, directory, library>>

\* 2) verify player, and compute nextReady from the row read here
ReadyPlayer(s) ==
  /\ At(s, "ready", "r_player")
  /\ LET player == players[req[s].pid]
     IN req' = [req EXCEPT ![s] =
          IF ~player.is_active THEN Respond(s, 400)
          ELSE [req[s] EXCEPT !.pc = "r_toggle", !.nextReady = ~player.is_ready]]
  /\ UNCHANGED <<room, players, rounds, nextRoundId, subs, view, lastAdvanceKey, scoring, directory, library>>

\* 3) toggle readiness
ReadyToggle(s) ==
  /\ At(s, "ready", "r_toggle")
  /\ players' = [players EXCEPT ![req[s].pid].is_ready = req[s].nextReady]
  /\ req' = [req EXCEPT ![s].pc = "r_active"]
  /\ UNCHANGED <<room, rounds, nextRoundId, subs, view, lastAdvanceKey, scoring, directory, library>>

\* active.length > 0 && active.every((p) => p.is_ready)
AllReady == ActivePlayers # {} /\ \A p \in ActivePlayers : players[p].is_ready

\* the condition under which the handler goes on to look for a round
AutoStartCondition(allReady, status) == allReady /\ status = "LOBBY"

\* 4) check if all active players are ready
ReadyActive(s) ==
  /\ At(s, "ready", "r_active")
  /\ req' = [req EXCEPT ![s] =
       IF AutoStartCondition(AllReady, req[s].st)
       THEN [req[s] EXCEPT !.pc = "r_last"]
       ELSE Respond(s, 200)]
  /\ UNCHANGED <<room, players, rounds, nextRoundId, subs, view, lastAdvanceKey, scoring, directory, library>>

\* 5) auto-start only if there are no rounds yet
ReadyLast(s) ==
  /\ At(s, "ready", "r_last")
  /\ req' = [req EXCEPT ![s] =
       IF Len(rounds) = 0 THEN [req[s] EXCEPT !.pc = "r_insert"]
       ELSE Respond(s, 200)]
  /\ UNCHANGED <<room, players, rounds, nextRoundId, subs, view, lastAdvanceKey, scoring, directory, library>>

\* create Round 1 in PROMPT phase
ReadyInsert(s, texts) ==
  /\ At(s, "ready", "r_insert")
  /\ Len(rounds) < MaxRounds
  /\ \E text \in texts : rounds' = Append(rounds, NewRound(1, text))
  /\ nextRoundId' = nextRoundId + 1
  /\ req' = [req EXCEPT ![s].pc = "r_status"]
  /\ UNCHANGED <<room, players, subs, view, lastAdvanceKey, scoring, directory, library>>

\* set room to IN_GAME, .eq("status", "LOBBY")
ReadyStatus(s) ==
  /\ At(s, "ready", "r_status")
  /\ room' = IF room.status = "LOBBY" THEN [room EXCEPT !.status = "IN_GAME"] ELSE room
  /\ req' = [req EXCEPT ![s].pc = "r_reset"]
  /\ UNCHANGED <<players, rounds, nextRoundId, subs, view, lastAdvanceKey, scoring, directory, library>>

\* the last step without the reset of readiness
ReadyResetSkipped(s) ==
  /\ At(s, "ready", "r_reset")
  /\ req' = [req EXCEPT ![s] = Respond(s, 200)]
  /\ UNCHANGED <<room, players, rounds, nextRoundId, subs, view, lastAdvanceKey, scoring, directory, library>>

\* reset readiness for the next round cycle
ReadyReset(s) ==
  /\ At(s, "ready", "r_reset")
  /\ players' = ResetReady
  /\ req' = [req EXCEPT ![s] = Respond(s, 200)]
  /\ UNCHANGED <<room, rounds, nextRoundId, subs, view, lastAdvanceKey, scoring, directory, library>>

ReadyStep(s, texts) ==
  \/ ReadyRoom(s) \/ ReadyPlayer(s) \/ ReadyToggle(s) \/ ReadyActive(s)
  \/ ReadyLast(s) \/ ReadyInsert(s, texts) \/ ReadyStatus(s) \/ ReadyReset(s)

-----------------------------------------------------------------------------
(* POST /api/players/ready, earlier variant: the round it inserts has no    *)
(* phase_ends_at, the round number is the last one plus one, and the room   *)
(* update carries no status filter                                          *)

EarlyReadyIssue(s, pid) ==
  /\ Issue(s, "ready_early", pid, "e_room")
  /\ UNCHANGED <<room, players, rounds, nextRoundId, subs, view, lastAdvanceKey, scoring, directory, library>>

\* 1) room lookup
EarlyReadyRoom(s) ==
  /\ At(s, "ready_early", "e_room")
  /\ req' = [req EXCEPT ![s] =
       IF room.status = "ENDED" THEN Respond(s, 400)
       ELSE [req[s] EXCEPT !.pc = "e_player", !.st = room.status]]
  /\ UNCHANGED <<room, players, rounds, nextRoundId, subs, view, lastAdvanceKey, scoring, directory, library>>

\* 2) verify player belongs to room
EarlyReadyPlayer(s) ==
  /\ At(s, "ready_early", "e_player")
  /\ LET player == players[req[s].pid]
     IN req' = [req EXCEPT ![s] =
          IF ~player.is_active THEN Respond(s, 400)
          ELSE [req[s] EXCEPT !.pc = "e_toggle", !.nextReady = ~player.is_ready]]
  /\ UNCHANGED <<room, players, rounds, nextRoundId, subs, view, lastAdvanceKey, scoring, directory, library>>

\* 3) set readiness (toggle if ready is omitted)
EarlyReadyToggle(s) ==
  /\ At(s, "ready_early", "e_toggle")
  /\ players' = [players EXCEPT ![req[s].pid].is_ready = req[s].nextReady]
  /\ req' = [req EXCEPT ![s].pc = "e_active"]
  /\ UNCHANGED <<room, rounds, nextRoundId, subs, view, lastAdvanceKey, scoring, directory, library>>

\* 4) auto-start rule: the room was in LOBBY and all active players are ready
EarlyReadyActive(s) ==
  /\ At(s, "ready_early", "e_active")
  /\ req' = [req EXCEPT ![s] =
       IF req[s].st = "LOBBY" /\ AllReady
       THEN [req[s] EXCEPT !.pc = "e_last"]
       ELSE Respond(s, 200)]
  /\ UNCHANGED <<room, players, rounds, nextRoundId, subs, view, lastAdvanceKey, scoring, directory, library>>

\* next round number
EarlyReadyLast(s) ==
  /\ At(s, "ready_early", "e_last")
  /\ req' = [req EXCEPT ![s] =
       [req[s] EXCEPT !.pc = "e_insert",
                      !.next = (IF Len(rounds) = 0 THEN 0 ELSE MaxRoundNumber) + 1]]
  /\ UNCHANGED <<room, players, rounds, nextRoundId, subs, view, lastAdvanceKey, scoring, directory, library>>

\* the row the earlier variants insert: no phase_ends_at among its columns
NewRoundWithoutDeadline(n, text) ==
  [id |-> nextRoundId, round_number |-> n, phase |-> "PROMPT",
   prompt_text |-> text, phase_ends_at |-> Null]

\* create round
EarlyReadyInsert(s, texts) ==
  /\ At(s, "ready_early", "e_insert")
  /\ Len(rounds) < MaxRounds
  /\ \E text \in texts :
       rounds' = Append(rounds, NewRoundWithoutDeadline(req[s].next, text))
  /\ nextRoundId' = nextRoundId + 1
  /\ req' = [req EXCEPT ![s].pc = "e_status"]
  /\ UNCHANGED <<room, players, subs, view, lastAdvanceKey, scoring, directory, library>>

\* set room IN_GAME
EarlyReadyStatus(s) ==
  /\ At(s, "ready_early", "e_status")
  /\ room' = [room EXCEPT !.status = "IN_GAME"]
  /\ req' = [req EXCEPT ![s].pc = "e_reset"]
  /\ UNCHANGED <<players, rounds, nextRoundId, subs, view, lastAdvanceKey, scoring, directory, library>>

\* reset readiness for next cycle
EarlyReadyReset(s) ==
  /\ At(s, "ready_early", "e_reset")
  /\ players' = ResetReady
  /\ req' = [req EXCEPT ![s] = Respond(s, 200)]
  /\ UNCHANGED <<room, rounds, nextRoundId, subs, view, lastAdvanceKey, scoring, directory, library>>

EarlyReadyStep(s, texts) ==
  \/ EarlyReadyRoom(s) \/ EarlyReadyPlayer(s) \/ EarlyReadyToggle(s)
  \/ EarlyReadyActive(s) \/ EarlyReadyLast(s) \/ EarlyReadyInsert(s, texts)
  \/ EarlyReadyStatus(s) \/ EarlyReadyReset(s)

-----------------------------------------------------------------------------
(* POST /api/rounds/advance, the handler whose updates carry .eq("phase", ...) *)

\* the latest round as a query result: null when the room has no round
LatestResults == IF Len(rounds) = 0 THEN {Null} ELSE {Some(r) : r \in LatestRounds}

\* the filter of the phase updates: .eq("id", id).eq("phase", expected)
UnguardedMatch(r, id, expected) == r.id = id
PhaseGuardMatch(r, id, expected) == r.id = id /\ r.phase = expected

\* an update of the phase that leaves phase_ends_at as it is
GuardedPhaseUpdateKeepsEnds(id, expected, phase, ends) ==
  [i \in 1..Len(rounds) |->
     IF PhaseGuardMatch(rounds[i], id, expected)
     THEN [rounds[i] EXCEPT !.phase = phase]
     ELSE rounds[i]]

\* update({phase, phase_ends_at}) of the rows the filter matches
GuardedPhaseUpdate(id, expected, phase, ends) ==
  [i \in 1..Len(rounds) |->
     IF PhaseGuardMatch(rounds[i], id, expected)
     THEN [rounds[i] EXCEPT !.phase = phase, !.phase_ends_at = ends]
     ELSE rounds[i]]

\* .select(...).maybeSingle() of that update: the row it changed, or null
Updated(id, expected) ==
  IF \E i \in 1..Len(rounds) : PhaseGuardMatch(rounds[i], id, expected)
  THEN Some(id) ELSE Null

\* round.round_number >= (room.total_rounds ?? 3)
IsLastRoundOffByOne(n) == n > TotalRounds
IsLastRound(n) == n >= TotalRounds

AdvanceIssue(s, pid) ==
  /\ Issue(s, "advance", pid, "a_room")
  /\ UNCHANGED <<room, players, rounds, nextRoundId, subs, view, lastAdvanceKey, scoring, directory, library>>

\* this step with the caller's player row checked before the room's status
AdvanceRoomPlayerFirst(s) ==
  /\ At(s, "advance", "a_room")
  /\ req' = [req EXCEPT ![s] =
       IF ~(req[s].pid \in Players /\ players[req[s].pid].is_active)
       THEN Respond(s, 400)
       ELSE IF room.status # "IN_GAME" THEN Respond(s, 200)
       ELSE [req[s] EXCEPT !.pc = "a_round"]]
  /\ UNCHANGED <<room, players, rounds, nextRoundId, subs, view, lastAdvanceKey, scoring, directory, library>>

\* read the room, then the caller's player row by id and room (its
\* is_active never changes); a row that is missing is no active player
AdvanceRoom(s) ==
  /\ At(s, "advance", "a_room")
  /\ req' = [req EXCEPT ![s] =
       IF room.status # "IN_GAME" THEN Respond(s, 200)
       ELSE IF ~(req[s].pid \in Players /\ players[req[s].pid].is_active)
       THEN Respond(s, 400)
       ELSE [req[s] EXCEPT !.pc = "a_round"]]
  /\ UNCHANGED <<room, players, rounds, nextRoundId, subs, view, lastAdvanceKey, scoring, directory, library>>

\* read the latest round
AdvanceRound(s) ==
  /\ At(s, "advance", "a_round")
  /\ \E round \in LatestResults :
       req' = [req EXCEPT ![s] =
         IF round = Null THEN Respond(s, 400)
         ELSE IF Get(round).phase \in {"PROMPT", "GENERATING", "REVEAL"}
         THEN [req[s] EXCEPT !.pc = "a_update", !.rnd = Some(RoundSnapshot(Get(round)))]
         ELSE Respond(s, 200)]
  /\ UNCHANGED <<room, players, rounds, nextRoundId, subs, view, lastAdvanceKey, scoring, directory, library>>

\* what the handler returns with {ok: true, updated}
RespondAdvance(s, updated) ==
  [Respond(s, 200) EXCEPT !.rnd = req[s].rnd, !.updated = updated,
                          !.err = req[s].err]

\* the conditional update of the branch the round's phase, as read, selects
AdvanceUpdate(s) ==
  /\ At(s, "advance", "a_update")
  /\ LET round == Get(req[s].rnd)
         updated == Updated(round.id, round.phase)
     IN \/ /\ round.phase = "PROMPT"
           /\ rounds' = GuardedPhaseUpdate(round.id, "PROMPT", "GENERATING",
                                           After(RoundSeconds * 1000))
           /\ req' = [req EXCEPT ![s] = RespondAdvance(s, updated)]
        \/ /\ round.phase = "GENERATING"
           /\ rounds' = GuardedPhaseUpdate(round.id, "GENERATING", "REVEAL", Null)
           /\ req' = [req EXCEPT ![s] = RespondAdvance(s, updated)]
        \/ /\ round.phase = "REVEAL"
           /\ rounds' = GuardedPhaseUpdate(round.id, "REVEAL", "RESULTS", Null)
           /\ req' = [req EXCEPT ![s] =
                IF IsLastRound(round.round_number)
                THEN [req[s] EXCEPT !.pc = "a_end", !.updated = updated]
                ELSE RespondAdvance(s, updated)]
  /\ UNCHANGED <<room, players, nextRoundId, subs, view, lastAdvanceKey, scoring, directory, library>>

\* if last round, end game
AdvanceEnd(s) ==
  /\ At(s, "advance", "a_end")
  /\ room' = [room EXCEPT !.status = "ENDED", !.ended_at = Now]
  /\ req' = [req EXCEPT ![s] = RespondAdvance(s, req[s].updated)]
  /\ UNCHANGED <<players, rounds, nextRoundId, subs, view, lastAdvanceKey, scoring, directory, library>>

AdvanceStep(s) ==
  \/ AdvanceRoom(s) \/ AdvanceRound(s) \/ AdvanceUpdate(s) \/ AdvanceEnd(s)

\* the phase update as the store answers it: it is done, or the store
\* reports an error and changes nothing.  The store's client returns
\* {data: null, error} and does not throw; the handler takes data alone
\* (const { data: updated } = await ...), so on an error it goes on as it
\* does when the filter matched no row.  err notes that the store reported
\* an error to this request; the handler never reads it
AdvanceUpdateStore(s, outcomes) ==
  \E outcome \in outcomes :
    IF outcome = "ok"
    THEN AdvanceUpdate(s)
    ELSE /\ At(s, "advance", "a_update")
         /\ LET round == Get(req[s].rnd)
                failed == [req[s] EXCEPT !.err = "store"]
            IN req' = [req EXCEPT ![s] =
                 IF round.phase = "REVEAL" /\ IsLastRound(round.round_number)
                 THEN [failed EXCEPT !.pc = "a_end", !.updated = Null]
                 ELSE [Respond(s, 200) EXCEPT !.rnd = req[s].rnd, !.updated = Null,
                                              !.err = "store"]]
         /\ UNCHANGED <<room, players, rounds, nextRoundId, subs, view, lastAdvanceKey, scoring, directory, library>>

-----------------------------------------------------------------------------
(* POST /api/rounds/advance, the handler whose updates filter on the round  *)
(* id alone.  It runs on the rows of the second deployment.                 *)

\* .order("round_number", desc).limit(1).maybeSingle() on the rows rs
LatestOf(rs) ==
  IF Len(rs) = 0 THEN {Null}
  ELSE {Some(rs[i]) : i \in {j \in 1..Len(rs) :
                                \A k \in 1..Len(rs) : rs[k].round_number <= rs[j].round_number}}

\* an update of the phase that leaves phase_ends_at as it is
UnguardedPhaseUpdateKeepsEnds(rs, id, phase, ends) ==
  [i \in 1..Len(rs) |->
     IF rs[i].id = id THEN [rs[i] EXCEPT !.phase = phase] ELSE rs[i]]

\* update({phase, phase_ends_at}).eq("id", id)
UnguardedPhaseUpdate(rs, id, phase, ends) ==
  [i \in 1..Len(rs) |->
     IF rs[i].id = id THEN [rs[i] EXCEPT !.phase = phase, !.phase_ends_at = ends]
     ELSE rs[i]]

UnguardedAdvanceRoom(s) ==
  /\ At(s, "advance_unguarded", "u_room")
  /\ req' = [req EXCEPT ![s] =
       IF twin.room.status # "IN_GAME" THEN Respond(s, 200)
       ELSE IF ~(req[s].pid \in Players /\ players[req[s].pid].is_active)
       THEN Respond(s, 400)
       ELSE [req[s] EXCEPT !.pc = "u_round"]]
  /\ UNCHANGED <<room, players, rounds, nextRoundId, subs, view, lastAdvanceKey, scoring, directory, library>>

\* latest round
UnguardedAdvanceRound(s) ==
  /\ At(s, "advance_unguarded", "u_round")
  /\ \E round \in LatestOf(twin.rounds) :
       req' = [req EXCEPT ![s] =
         IF round = Null THEN Respond(s, 400)
         ELSE IF Get(round).phase \in {"PROMPT", "GENERATING", "REVEAL"}
         THEN [req[s] EXCEPT !.pc = "u_update", !.rnd = Some(RoundSnapshot(Get(round)))]
         ELSE Respond(s, 200)]
  /\ UNCHANGED <<room, players, rounds, nextRoundId, subs, view, lastAdvanceKey, scoring, directory, library>>

\* the update of the branch the round's phase, as read, selects
UnguardedAdvanceUpdate(s) ==
  /\ At(s, "advance_unguarded", "u_update")
  /\ LET round == Get(req[s].rnd)
         seconds == Coalesce(twin.room.round_seconds, DefaultRoundSeconds)
         total == Coalesce(twin.room.total_rounds, DefaultTotalRounds)
     IN \/ /\ round.phase = "PROMPT"
           /\ twin' = [twin EXCEPT !.rounds =
                UnguardedPhaseUpdate(twin.rounds, round.id, "GENERATING",
                                     After(seconds * 1000))]
           /\ req' = [req EXCEPT ![s] = Respond(s, 200)]
        \/ /\ round.phase = "GENERATING"
           /\ twin' = [twin EXCEPT !.rounds =
                UnguardedPhaseUpdate(twin.rounds, round.id, "REVEAL", Null)]
           /\ req' = [req EXCEPT ![s] = Respond(s, 200)]
        \/ /\ round.phase = "REVEAL"
           /\ twin' = [twin EXCEPT !.rounds =
                UnguardedPhaseUpdate(twin.rounds, round.id, "RESULTS", Null)]
           /\ req' = [req EXCEPT ![s] =
                IF round.round_number >= total
                THEN [req[s] EXCEPT !.pc = "u_end"]
                ELSE Respond(s, 200)]
  /\ UNCHANGED <<room, players, rounds, nextRoundId, subs, view, lastAdvanceKey, scoring, directory, codeGen>>

\* if last round, end game
UnguardedAdvanceEnd(s) ==
  /\ At(s, "advance_unguarded", "u_end")
  /\ twin' = [twin EXCEPT !.room = [twin.room EXCEPT !.status = "ENDED", !.ended_at = Now]]
  /\ req' = [req EXCEPT ![s] = Respond(s, 200)]
  /\ UNCHANGED <<room, players, rounds, nextRoundId, subs, view, lastAdvanceKey, scoring, directory, codeGen>>

UnguardedAdvanceStep(s) ==
  \/ UnguardedAdvanceRoom(s) \/ UnguardedAdvanceRound(s)
  \/ UnguardedAdvanceUpdate(s) \/ UnguardedAdvanceEnd(s)

-----------------------------------------------------------------------------
(* POST /api/submissions/create *)

SubmitIssue(s, pid, input) ==
  /\ req[s].pc = "idle"
  /\ req' = [req EXCEPT ![s] =
       [Idle EXCEPT !.kind = "submit", !.pid = pid, !.pc = "b_room", !.input = input]]
  /\ UNCHANGED <<room, players, rounds, nextRoundId, subs, view, lastAdvanceKey, scoring, directory, library>>

\* the input check, then the room lookup
SubmitRoom(s) ==
  /\ At(s, "submit", "b_room")
  /\ req' = [req EXCEPT ![s] =
       IF req[s].input = "" THEN Respond(s, 400)
       ELSE IF room.status # "IN_GAME" THEN Respond(s, 400)
       ELSE [req[s] EXCEPT !.pc = "b_round"]]
  /\ UNCHANGED <<room, players, rounds, nextRoundId, subs, view, lastAdvanceKey, scoring, directory, library>>

\* the latest round must be in GENERATING
SubmitRound(s) ==
  /\ At(s, "submit", "b_round")
  /\ \E round \in LatestResults :
       req' = [req EXCEPT ![s] =
         IF round = Null THEN Respond(s, 400)
         ELSE IF Get(round).phase # "GENERATING" THEN Respond(s, 400)
         ELSE [req[s] EXCEPT !.pc = "b_upsert", !.rnd = Some(RoundSnapshot(Get(round)))]]
  /\ UNCHANGED <<room, players, rounds, nextRoundId, subs, view, lastAdvanceKey, scoring, directory, library>>

\* a plain insert of the row
InsertRow(row) == subs \cup {row}

\* upsert(row, {onConflict: "round_id,player_id"})
Upsert(row) ==
  {x \in subs : ~(x.round_id = row.round_id /\ x.player_id = row.player_id)} \cup {row}

SubmitUpsert(s) ==
  /\ At(s, "submit", "b_upsert")
  /\ subs' = Upsert([round_id |-> Get(req[s].rnd).id, player_id |-> req[s].pid,
                     prompt_input |-> req[s].input])
  /\ req' = [req EXCEPT ![s] = [Respond(s, 200) EXCEPT !.rnd = req[s].rnd]]
  /\ UNCHANGED <<room, players, rounds, nextRoundId, view, lastAdvanceKey, scoring, directory, library>>

SubmitStep(s) == SubmitRoom(s) \/ SubmitRound(s) \/ SubmitUpsert(s)

-----------------------------------------------------------------------------
(* POST /api/rounds/reroll *)

RerollIssue(s, pid) ==
  /\ Issue(s, "reroll", pid, "l_room")
  /\ UNCHANGED <<room, players, rounds, nextRoundId, subs, view, lastAdvanceKey, scoring, directory, library>>

\* the room lookup, then the host check (is_host and is_active never change)
RerollRoom(s) ==
  /\ At(s, "reroll", "l_room")
  /\ LET host == players[req[s].pid]
     IN req' = [req EXCEPT ![s] =
          IF room.status = "ENDED" THEN Respond(s, 400)
          ELSE IF ~host.is_active THEN Respond(s, 400)
          ELSE IF ~host.is_host THEN Respond(s, 403)
          ELSE [req[s] EXCEPT !.pc = "l_round"]]
  /\ UNCHANGED <<room, players, rounds, nextRoundId, subs, view, lastAdvanceKey, scoring, directory, library>>

\* the round lookup without the check of its phase
RerollRoundAnyPhase(s) ==
  /\ At(s, "reroll", "l_round")
  /\ \E round \in LatestResults :
       req' = [req EXCEPT ![s] =
         IF round = Null THEN Respond(s, 400)
         ELSE [req[s] EXCEPT !.pc = "l_update", !.rnd = Some(RoundSnapshot(Get(round)))]]
  /\ UNCHANGED <<room, players, rounds, nextRoundId, subs, view, lastAdvanceKey, scoring, directory, library>>

\* the latest round must be in PROMPT
RerollRound(s) ==
  /\ At(s, "reroll", "l_round")
  /\ \E round \in LatestResults :
       req' = [req EXCEPT ![s] =
         IF round = Null THEN Respond(s, 400)
         ELSE IF Get(round).phase # "PROMPT" THEN Respond(s, 400)
         ELSE [req[s] EXCEPT !.pc = "l_update", !.rnd = Some(RoundSnapshot(Get(round)))]]
  /\ UNCHANGED <<room, players, rounds, nextRoundId, subs, view, lastAdvanceKey, scoring, directory, library>>

\* new prompt, then update({prompt_text}).eq("id", round.id).single()
RerollUpdate(s, texts) ==
  /\ At(s, "reroll", "l_update")
  /\ LET id == Get(req[s].rnd).id
     IN IF id \in RoundIds
        THEN /\ \E text \in texts :
                  rounds' = [i \in 1..Len(rounds) |->
                               IF rounds[i].id = id
                               THEN [rounds[i] EXCEPT !.prompt_text = text]
                               ELSE rounds[i]]
             /\ req' = [req EXCEPT ![s] = Respond(s, 200)]
        ELSE /\ rounds' = rounds
             /\ req' = [req EXCEPT ![s] = Respond(s, 500)]
  /\ UNCHANGED <<room, players, nextRoundId, subs, view, lastAdvanceKey, scoring, directory, library>>

RerollStep(s, texts) == RerollRoom(s) \/ RerollRound(s) \/ RerollUpdate(s, texts)

-----------------------------------------------------------------------------
(* POST /api/rooms/settings *)

SettingsIssue(s, pid, isFamilyFriendly) ==
  /\ req[s].pc = "idle"
  /\ req' = [req EXCEPT ![s] =
       [Idle EXCEPT !.kind = "settings", !.pid = pid, !.pc = "t_room",
                    !.isFamilyFriendly = isFamilyFriendly]]
  /\ UNCHANGED <<room, players, rounds, nextRoundId, subs, view, lastAdvanceKey, scoring, directory, library>>

\* the room lookup (settings can only change in the lobby), then the host
\* lookup by id and room
SettingsRoom(s) ==
  /\ At(s, "settings", "t_room")
  /\ req' = [req EXCEPT ![s] =
       IF room.status # "LOBBY" THEN Respond(s, 400)
       ELSE IF ~(req[s].pid \in Players /\ players[req[s].pid].is_host)
       THEN Respond(s, 403)
       ELSE [req[s] EXCEPT !.pc = "t_update"]]
  /\ UNCHANGED <<room, players, rounds, nextRoundId, subs, view, lastAdvanceKey, scoring, directory, library>>

\* update({is_family_friendly}).eq("id", room.id)
SettingsUpdate(s) ==
  /\ At(s, "settings", "t_update")
  /\ room' = [room EXCEPT !.is_family_friendly = req[s].isFamilyFriendly]
  /\ req' = [req EXCEPT ![s] = Respond(s, 200)]
  /\ UNCHANGED <<players, rounds, nextRoundId, subs, view, lastAdvanceKey, scoring, directory, library>>

SettingsStep(s) == SettingsRoom(s) \/ SettingsUpdate(s)

-----------------------------------------------------------------------------
(* POST rematch *)

RematchIssue(s, pid) ==
  /\ nextRoundId <= MaxRematchRoundId
  /\ Issue(s, "rematch", pid, "m_room")
  /\ UNCHANGED <<room, players, rounds, nextRoundId, subs, view, lastAdvanceKey, scoring, directory, library>>

\* the room lookup, then the host lookup by id and room; a row that is
\* missing is treated as one that is no host
RematchRoomAnyPlayer(s) ==
  /\ At(s, "rematch", "m_room")
  /\ req' = [req EXCEPT ![s] =
       IF ~(req[s].pid \in Players)
       THEN Respond(s, 403)
       ELSE [req[s] EXCEPT !.pc = "m_votes"]]
  /\ UNCHANGED <<room, players, rounds, nextRoundId, subs, view, lastAdvanceKey, scoring, directory, library>>

RematchRoom(s) ==
  /\ At(s, "rematch", "m_room")
  /\ req' = [req EXCEPT ![s] =
       IF ~(req[s].pid \in Players /\ players[req[s].pid].is_host)
       THEN Respond(s, 403)
       ELSE [req[s] EXCEPT !.pc = "m_votes"]]
  /\ UNCHANGED <<room, players, rounds, nextRoundId, subs, view, lastAdvanceKey, scoring, directory, library>>

\* clear game data: votes, submissions, rounds, scores
RematchVotes(s) ==
  /\ At(s, "rematch", "m_votes")
  /\ votes' = {}
  /\ req' = [req EXCEPT ![s].pc = "m_subs"]
  /\ UNCHANGED <<room, players, rounds, nextRoundId, subs, view, lastAdvanceKey, scores, directory, library>>

RematchSubmissions(s) ==
  /\ At(s, "rematch", "m_subs")
  /\ subs' = {}
  /\ req' = [req EXCEPT ![s].pc = "m_rounds"]
  /\ UNCHANGED <<room, players, rounds, nextRoundId, view, lastAdvanceKey, scoring, directory, library>>

RematchRoundsKept(s) ==
  /\ At(s, "rematch", "m_rounds")
  /\ req' = [req EXCEPT ![s].pc = "m_scores"]
  /\ UNCHANGED <<room, players, rounds, nextRoundId, subs, view, lastAdvanceKey, scoring, directory, library>>

RematchRounds(s) ==
  /\ At(s, "rematch", "m_rounds")
  /\ rounds' = <<>>
  /\ req' = [req EXCEPT ![s].pc = "m_scores"]
  /\ UNCHANGED <<room, players, nextRoundId, subs, view, lastAdvanceKey, scoring, directory, library>>

RematchScores(s) ==
  /\ At(s, "rematch", "m_scores")
  /\ scores' = {}
  /\ req' = [req EXCEPT ![s].pc = "m_status"]
  /\ UNCHANGED <<room, players, rounds, nextRoundId, subs, view, lastAdvanceKey, votes, directory, library>>

\* reset room + readiness
RematchStatus(s) ==
  /\ At(s, "rematch", "m_status")
  /\ room' = [room EXCEPT !.status = "LOBBY", !.ended_at = Null]
  /\ req' = [req EXCEPT ![s].pc = "m_reset"]
  /\ UNCHANGED <<players, rounds, nextRoundId, subs, view, lastAdvanceKey, scoring, directory, library>>

RematchReset(s) ==
  /\ At(s, "rematch", "m_reset")
  /\ players' = ResetReady
  /\ req' = [req EXCEPT ![s] = Respond(s, 200)]
  /\ UNCHANGED <<room, rounds, nextRoundId, subs, view, lastAdvanceKey, scoring, directory, library>>

RematchStep(s) ==
  \/ RematchRoom(s) \/ RematchVotes(s) \/ RematchSubmissions(s) \/ RematchRounds(s)
  \/ RematchScores(s) \/ RematchStatus(s) \/ RematchReset(s)

-----------------------------------------------------------------------------
(* POST /api/rooms/create and the join handler of the same file.  A room is *)
(* identified by its join_code (the insert fails on a duplicate code, so   *)
(* code and id determine each other); a player row by room and name.       *)

\* a store call succeeds, or the store reports an error that is no
\* duplicate-key error
StoreOutcomes == {"ok", "error"}

RoomByCode(code) == {r \in rooms : r.join_code = code}
MembersOf(code) == {m \in members : m.room_id = code}
ActiveCount(code) == Cardinality({m \in MembersOf(code) : m.is_active})
NameTaken(code, name) == \E m \in MembersOf(code) : m.display_name = name

CreateIssue(s, name) ==
  /\ req[s].pc = "idle"
  /\ req' = [req EXCEPT ![s] =
       [Idle EXCEPT !.kind = "create", !.pc = "c_name", !.name = name]]
  /\ UNCHANGED <<room, players, rounds, nextRoundId, subs, view, lastAdvanceKey, scoring, directory, library>>

\* if (!displayName) ... 400
CreateName(s) ==
  /\ At(s, "create", "c_name")
  /\ req' = [req EXCEPT ![s] =
       IF req[s].name = "" THEN Respond(s, 400)
       ELSE [req[s] EXCEPT !.pc = "c_room"]]
  /\ UNCHANGED <<room, players, rounds, nextRoundId, subs, view, lastAdvanceKey, scoring, directory, library>>

\* what a create request is answered: the status, the error message of
\* the body ("store" for the store's message, "exhausted" for "Failed to
\* generate a unique join code"), and how many passes of the loop it made
RespondCreate(s, code, err) ==
  [Respond(s, code) EXCEPT !.err = err, !.attempt = req[s].attempt,
                           !.joinCode = req[s].joinCode]

\* this pass with a retry after any error of the insert
CreateRoomRetryAnyError(s, codes, outcomes) ==
  /\ At(s, "create", "c_room")
  /\ \E join_code \in codes, outcome \in outcomes :
       IF outcome = "error" \/ RoomByCode(join_code) # {}
       THEN /\ req' = [req EXCEPT ![s] =
                 IF req[s].attempt + 1 < CreateAttempts
                 THEN [req[s] EXCEPT !.attempt = req[s].attempt + 1,
                                     !.joinCode = join_code]
                 ELSE RespondCreate(s, 500, "exhausted")]
            /\ rooms' = rooms
       ELSE /\ rooms' = rooms \cup {[join_code |-> join_code, status |-> "LOBBY",
                                     max_players |-> CreateMaxPlayers]}
            /\ req' = [req EXCEPT ![s] =
                 [req[s] EXCEPT !.pc = "c_host", !.joinCode = join_code]]
  /\ UNCHANGED <<room, players, rounds, nextRoundId, subs, view, lastAdvanceKey, scoring, members, library>>

\* one pass of the loop: generateJoinCode(4), insert the room; a duplicate
\* code goes to the next attempt, any other error returns 500.  joinCode is
\* the code of the pass, kept until the next pass draws another
CreateRoom(s, codes, outcomes) ==
  /\ At(s, "create", "c_room")
  /\ \E join_code \in codes, outcome \in outcomes :
       IF outcome = "error"
       THEN /\ req' = [req EXCEPT ![s] = RespondCreate(s, 500, "store")]
            /\ rooms' = rooms
       ELSE IF RoomByCode(join_code) # {}
       THEN /\ req' = [req EXCEPT ![s] =
                 IF req[s].attempt + 1 < CreateAttempts
                 THEN [req[s] EXCEPT !.attempt = req[s].attempt + 1,
                                     !.joinCode = join_code]
                 ELSE RespondCreate(s, 500, "exhausted")]
            /\ rooms' = rooms
       ELSE /\ rooms' = rooms \cup {[join_code |-> join_code, status |-> "LOBBY",
                                     max_players |-> CreateMaxPlayers]}
            /\ req' = [req EXCEPT ![s] =
                 [req[s] EXCEPT !.pc = "c_host", !.joinCode = join_code]]
  /\ UNCHANGED <<room, players, rounds, nextRoundId, subs, view, lastAdvanceKey, scoring, members, library>>

\* insert the host player of the new room; on an error (the unique index
\* on the name within the room included) return 500
CreateHost(s, outcomes) ==
  /\ At(s, "create", "c_host")
  /\ \E outcome \in outcomes :
       IF outcome = "error" \/ NameTaken(req[s].joinCode, req[s].name)
       THEN /\ members' = members
            /\ req' = [req EXCEPT ![s] = RespondCreate(s, 500, "store")]
       ELSE /\ members' = members \cup
                 {[room_id |-> req[s].joinCode, display_name |-> req[s].name,
                   is_host |-> TRUE, is_active |-> TRUE]}
            /\ req' = [req EXCEPT ![s] = RespondCreate(s, 200, "")]
  /\ UNCHANGED <<room, players, rounds, nextRoundId, subs, view, lastAdvanceKey, scoring, rooms, library>>

CreateStep(s, codes, roomOutcomes, hostOutcomes) ==
  CreateName(s) \/ CreateRoom(s, codes, roomOutcomes) \/ CreateHost(s, hostOutcomes)

JoinIssue(s, name, joinCode) ==
  /\ req[s].pc = "idle"
  /\ req' = [req EXCEPT ![s] =
       [Idle EXCEPT !.kind = "join", !.pc = "j_room", !.name = name,
                    !.joinCode = joinCode]]
  /\ UNCHANGED <<room, players, rounds, nextRoundId, subs, view, lastAdvanceKey, scoring, directory, library>>

\* the checks of the body, then the room lookup
JoinRoom(s) ==
  /\ At(s, "join", "j_room")
  /\ req' = [req EXCEPT ![s] =
       IF req[s].name = "" THEN Respond(s, 400)
       ELSE IF req[s].joinCode = "" THEN Respond(s, 400)
       ELSE IF RoomByCode(req[s].joinCode) = {} THEN Respond(s, 404)
       ELSE IF Get(RoomByCode(req[s].joinCode)).status = "ENDED" THEN Respond(s, 400)
       ELSE [req[s] EXCEPT !.pc = "j_count"]]
  /\ UNCHANGED <<room, players, rounds, nextRoundId, subs, view, lastAdvanceKey, scoring, directory, library>>

\* what a join request is answered once its room is found
RespondJoin(s, code) ==
  [Respond(s, code) EXCEPT !.name = req[s].name, !.joinCode = req[s].joinCode]

\* the count test with > for >=
JoinCountOffByOne(s) ==
  /\ At(s, "join", "j_count")
  /\ req' = [req EXCEPT ![s] =
       IF ActiveCount(req[s].joinCode) > Get(RoomByCode(req[s].joinCode)).max_players
       THEN RespondJoin(s, 400)
       ELSE [req[s] EXCEPT !.pc = "j_insert"]]
  /\ UNCHANGED <<room, players, rounds, nextRoundId, subs, view, lastAdvanceKey, scoring, directory, library>>

\* enforce max players (active)
JoinCount(s) ==
  /\ At(s, "join", "j_count")
  /\ req' = [req EXCEPT ![s] =
       IF ActiveCount(req[s].joinCode) >= Get(RoomByCode(req[s].joinCode)).max_players
       THEN RespondJoin(s, 400)
       ELSE [req[s] EXCEPT !.pc = "j_insert"]]
  /\ UNCHANGED <<room, players, rounds, nextRoundId, subs, view, lastAdvanceKey, scoring, directory, library>>

\* the insert with a unique index on the name alone, whatever the room
JoinInsertAnyRoom(s) ==
  /\ At(s, "join", "j_insert")
  /\ IF \E m \in members : m.display_name = req[s].name
     THEN /\ members' = members
          /\ req' = [req EXCEPT ![s] = RespondJoin(s, 400)]
     ELSE /\ members' = members \cup
               {[room_id |-> req[s].joinCode, display_name |-> req[s].name,
                 is_host |-> FALSE, is_active |-> TRUE]}
          /\ req' = [req EXCEPT ![s] = RespondJoin(s, 200)]
  /\ UNCHANGED <<room, players, rounds, nextRoundId, subs, view, lastAdvanceKey, scoring, rooms, library>>

\* insert the player; the unique index on the name within the room makes
\* the insert fail with a duplicate-key error, answered 400
JoinInsert(s) ==
  /\ At(s, "join", "j_insert")
  /\ IF NameTaken(req[s].joinCode, req[s].name)
     THEN /\ members' = members
          /\ req' = [req EXCEPT ![s] = RespondJoin(s, 400)]
     ELSE /\ members' = members \cup
               {[room_id |-> req[s].joinCode, display_name |-> req[s].name,
                 is_host |-> FALSE, is_active |-> TRUE]}
          /\ req' = [req EXCEPT ![s] = RespondJoin(s, 200)]
  /\ UNCHANGED <<room, players, rounds, nextRoundId, subs, view, lastAdvanceKey, scoring, rooms, library>>

JoinStep(s) == JoinRoom(s) \/ JoinCount(s) \/ JoinInsert(s)

-----------------------------------------------------------------------------
(* generateJoinCode(length) *)

\* an alphabet that keeps the characters easily misread
alphabetWithLookalikes ==
  <<"A", "B", "C", "D", "E", "F", "G", "H", "I", "J", "K", "L", "M", "N", "O",
    "P", "Q", "R", "S", "T", "U", "V", "W", "X", "Y", "Z",
    "0", "1", "2", "3", "4", "5", "6", "7", "8", "9">>

\* const alphabet = "ABCDEFGHJKLMNPQRSTUVWXYZ23456789"
alphabet ==
  <<"A", "B", "C", "D", "E", "F", "G", "H", "J", "K", "L", "M", "N",
    "P", "Q", "R", "S", "T", "U", "V", "W", "X", "Y", "Z",
    "2", "3", "4", "5", "6", "7", "8", "9">>

\* Math.floor(Math.random() * alphabet.length), with Math.random() = k / RandomSteps
RandomIndex(k) == (k * Len(alphabet)) \div RandomSteps

\* the call: let out = ""; let i = 0
GenerateJoinCodeCall(length) ==
  /\ ~codeGen.running
  /\ codeGen' = [length |-> length, i |-> 0, out |-> <<>>, running |-> TRUE]
  /\ UNCHANGED <<room, players, rounds, nextRoundId, subs, req, view, lastAdvanceKey, scoring, directory, twin>>

\* one pass of the loop: out += alphabet[...]; i++  (strings are indexed
\* from 0, sequences from 1)
GenerateJoinCodeLoop ==
  /\ codeGen.running /\ codeGen.i < codeGen.length
  /\ \E k \in 0..(RandomSteps - 1) :
       codeGen' = [codeGen EXCEPT !.out = Append(codeGen.out, alphabet[RandomIndex(k) + 1]),
                                  !.i = codeGen.i + 1]
  /\ UNCHANGED <<room, players, rounds, nextRoundId, subs, req, view, lastAdvanceKey, scoring, directory, twin>>

\* return out
GenerateJoinCodeReturn ==
  /\ codeGen.running /\ ~(codeGen.i < codeGen.length)
  /\ codeGen' = [codeGen EXCEPT !.running = FALSE]
  /\ UNCHANGED <<room, players, rounds, nextRoundId, subs, req, view, lastAdvanceKey, scoring, directory, twin>>

-----------------------------------------------------------------------------
(* The room page of a client: what it last fetched, and its advance timer *)

\* the client has an advance request of its own under way (setAdvancing)
Advancing(c) == \E s \in Slots : req[s].kind = "advance" /\ req[s].pid = c

\* the dependencies of the auto-advance effect
EffectDeps(v) == <<v.status, v.round>>

\* a fetch has set new state: the page renders, and when the effect's
\* dependencies changed the effect runs again, with this render's closures
Render(c, v) ==
  view' = [view EXCEPT ![c] =
    IF EffectDeps(v) = EffectDeps(view[c]) THEN view[c]
    ELSE [v EXCEPT !.advancing = Advancing(c)]]

\* refreshRoom
ClientRefreshRoom(c) ==
  /\ view[c].status # room.status
  /\ Render(c, [view[c] EXCEPT !.status = room.status])
  /\ UNCHANGED <<room, players, rounds, nextRoundId, subs, req, lastAdvanceKey, scoring, directory, library>>

\* loadLatestRound
ClientLoadLatestRound(c) ==
  /\ \E round \in LatestResults :
       LET seen == IF round = Null THEN Null
                   ELSE Some([id |-> Get(round).id, phase |-> Get(round).phase,
                              phase_ends_at |-> Get(round).phase_ends_at])
       IN /\ seen # view[c].round
          /\ Render(c, [view[c] EXCEPT !.round = seen])
  /\ UNCHANGED <<room, players, rounds, nextRoundId, subs, req, lastAdvanceKey, scoring, directory, library>>

\* the effect's conditions for arming the timer
TimerArmed(c) ==
  /\ view[c].status = "IN_GAME"
  /\ view[c].round # Null
  /\ Get(view[c].round).phase \in {"PROMPT", "GENERATING"}
  /\ Get(view[c].round).phase_ends_at # Null

\* `${id}:${phase}:${phase_ends_at}`
AdvanceKey(c) == view[c].round

\* the timer without lastAdvanceKeyRef: it advances whenever it runs
TimerFireEveryRun(c) ==
  /\ TimerArmed(c)
  /\ lastAdvanceKey' = [lastAdvanceKey EXCEPT ![c] = AdvanceKey(c)]
  /\ IF view[c].advancing
     THEN req' = req
     ELSE \E s \in Slots :
            /\ FreeSlot(s)
            /\ req' = [req EXCEPT ![s] =
                 [Idle EXCEPT !.kind = "advance", !.pid = c, !.pc = "a_room",
                              !.obs = AdvanceKey(c)]]
  /\ UNCHANGED <<room, players, rounds, nextRoundId, subs, view, scoring, directory, library>>

\* the deadline has passed (at once, or by the scheduled timeout): advance
\* once per key; advancePhase() sends nothing while `advancing` is set
TimerFire(c) ==
  /\ TimerArmed(c)
  /\ lastAdvanceKey[c] # AdvanceKey(c)
  /\ lastAdvanceKey' = [lastAdvanceKey EXCEPT ![c] = AdvanceKey(c)]
  /\ IF view[c].advancing
     THEN req' = req
     ELSE \E s \in Slots :
            /\ FreeSlot(s)
            /\ req' = [req EXCEPT ![s] =
                 [Idle EXCEPT !.kind = "advance", !.pid = c, !.pc = "a_room",
                              !.obs = AdvanceKey(c)]]
  /\ UNCHANGED <<room, players, rounds, nextRoundId, subs, view, scoring, directory, library>>

ClientStep(c) == ClientRefreshRoom(c) \/ ClientLoadLatestRound(c) \/ TimerFire(c)

\* the Continue button: rendered for the host while the page's round is in
\* REVEAL, disabled while `advancing` is set; onClick={advancePhase}
ClientContinue(c) ==
  /\ c = HOST
  /\ view[c].round # Null /\ Get(view[c].round).phase = "REVEAL"
  /\ ~Advancing(c)
  /\ \E s \in Slots :
       /\ FreeSlot(s)
       /\ req' = [req EXCEPT ![s] =
            [Idle EXCEPT !.kind = "advance", !.pid = c, !.pc = "a_room",
                         !.obs = view[c].round]]
  /\ UNCHANGED <<room, players, rounds, nextRoundId, subs, view, lastAdvanceKey, scoring, directory, library>>

-----------------------------------------------------------------------------
(* Specifications: which requests are sent, by whom, with which inputs *)

\* the players who send requests
Callers == {"host", "p2"}
\* the generator succeeds (the text itself matters to reroll only)
GeneratedOnly == {AiPrompt}
\* what a player may type into the submission box
Inputs == {"a"}

\* lobby and round creation: start-round and ready-toggle requests
NextLobby ==
  \E s \in Slots :
    \/ \E pid \in Callers : FreeSlot(s) /\ StartIssue(s, pid)
    \/ StartStep(s, GeneratedOnly)
    \/ \E pid \in Callers : FreeSlot(s) /\ ReadyIssue(s, pid)
    \/ ReadyStep(s, GeneratedOnly)
    \/ Return(s)

SpecLobby == Init /\ [][NextLobby]_vars

\* the phase machine: the host starts rounds, any player advances
NextAdvance ==
  \E s \in Slots :
    \/ FreeSlot(s) /\ StartIssue(s, HOST)
    \/ StartStep(s, GeneratedOnly)
    \/ \E pid \in Callers : FreeSlot(s) /\ AdvanceIssue(s, pid)
    \/ AdvanceStep(s)
    \/ Return(s)

SpecAdvance == Init /\ [][NextAdvance]_vars

\* all five game requests: slot 1 takes a request of any kind, slot 2 an
\* advance request, so that an advance runs against each kind of request
Next ==
  \/ StartIssue(1, HOST)
  \/ \E pid \in Callers : ReadyIssue(1, pid)
  \/ RerollIssue(1, HOST)
  \/ \E input \in Inputs : SubmitIssue(1, "p2", input)
  \/ \E s \in Slots, pid \in Callers : AdvanceIssue(s, pid)
  \/ \E s \in Slots :
       \/ StartStep(s, GeneratedOnly)
       \/ ReadyStep(s, GeneratedOnly)
       \/ RerollStep(s, PromptOutcomes)
       \/ SubmitStep(s)
       \/ AdvanceStep(s)
       \/ Return(s)

Spec == Init /\ [][Next]_vars

\* a game under way, as a completed start-round request leaves it
InitGame ==
  /\ room \in {[status |-> "IN_GAME", ended_at |-> Null, is_family_friendly |-> FALSE,
                 total_rounds |-> c[1], round_seconds |-> c[2]] : c \in RoomSettings}
  /\ players = [p \in Players |->
                  [is_host |-> p = HOST, is_active |-> p # "p3", is_ready |-> FALSE]]
  /\ rounds = <<[id |-> 1, round_number |-> 1, phase |-> "PROMPT",
                 prompt_text |-> AiPrompt, phase_ends_at |-> After(PromptRevealMs)]>>
  /\ nextRoundId = 2
  /\ subs = {}
  /\ req = [s \in Slots |-> Idle]
  /\ view = [c \in Clients |-> [status |-> "LOBBY", round |-> Null, advancing |-> FALSE]]
  /\ lastAdvanceKey = [c \in Clients |-> Null]
  /\ votes = {} /\ scores = {}
  /\ rooms = {} /\ members = {}
  /\ codeGen = NoCodeGen
  /\ twin = NoTwin

\* the clients' timers drive the phases of the round
NextTimer ==
  \/ \E s \in Slots : AdvanceStep(s) \/ Return(s)
  \/ \E c \in Clients : ClientStep(c)

SpecTimer == InitGame /\ [][NextTimer]_vars

\* the clients' timers and the host's Continue button
NextContinue ==
  \/ \E s \in Slots : AdvanceStep(s) \/ Return(s)
  \/ \E c \in Clients : ClientStep(c) \/ ClientContinue(c)

SpecContinue == InitGame /\ [][NextContinue]_vars

\* requests run one at a time: a request is sent when none is under way
NextSerial ==
  \/ \E pid \in Callers : StartIssue(1, pid)
  \/ \E pid \in Callers : ReadyIssue(1, pid)
  \/ \E pid \in Callers : AdvanceIssue(1, pid)
  \/ StartStep(1, GeneratedOnly)
  \/ ReadyStep(1, GeneratedOnly)
  \/ AdvanceStep(1)
  \/ Return(1)

SpecSerial == Init /\ [][NextSerial]_vars

\* a lobby whose game the ready-toggle requests start, one request at a time
NextAutoStart ==
  \/ \E pid \in Players : ReadyIssue(1, pid)
  \/ \E pid \in Callers : AdvanceIssue(1, pid)
  \/ ReadyStep(1, PromptOutcomes)
  \/ AdvanceStep(1)
  \/ Return(1)

SpecAutoStart == Init /\ [][NextAutoStart]_vars

\* games and rematches, one request at a time.  No handler of this source
\* inserts votes or scores; the rows the rematch handler deletes are there
\* from the start or not
ScoringRows == {"row"}
RematchCallers == {HOST, "p2", Outsider}

InitRematch ==
  /\ room \in {[status |-> "LOBBY", ended_at |-> Null, is_family_friendly |-> FALSE,
                 total_rounds |-> c[1], round_seconds |-> c[2]] : c \in RoomSettings}
  /\ players = [p \in Players |->
                  [is_host |-> p = HOST, is_active |-> p # "p3", is_ready |-> FALSE]]
  /\ rounds = <<>>
  /\ nextRoundId = 1
  /\ subs = {}
  /\ req = [s \in Slots |-> Idle]
  /\ view = [c \in Clients |-> [status |-> "LOBBY", round |-> Null, advancing |-> FALSE]]
  /\ lastAdvanceKey = [c \in Clients |-> Null]
  /\ votes \in SUBSET ScoringRows /\ scores \in SUBSET ScoringRows
  /\ rooms = {} /\ members = {}
  /\ codeGen = NoCodeGen
  /\ twin = NoTwin

NextRematch ==
  \/ StartIssue(1, HOST)
  \/ \E pid \in Callers : ReadyIssue(1, pid)
  \/ AdvanceIssue(1, HOST)
  \/ \E input \in Inputs : SubmitIssue(1, "p2", input)
  \/ \E pid \in RematchCallers : RematchIssue(1, pid)
  \/ StartStep(1, GeneratedOnly)
  \/ ReadyStep(1, GeneratedOnly)
  \/ AdvanceStep(1)
  \/ SubmitStep(1)
  \/ RematchStep(1)
  \/ Return(1)

SpecRematch == InitRematch /\ [][NextRematch]_vars

\* the lobby with its settings: settings, start-round and ready-toggle
\* requests
NextSettings ==
  \E s \in Slots :
    \/ \E pid \in Callers, isFamilyFriendly \in BOOLEAN :
         FreeSlot(s) /\ SettingsIssue(s, pid, isFamilyFriendly)
    \/ SettingsStep(s)
    \/ FreeSlot(s) /\ StartIssue(s, HOST)
    \/ StartStep(s, GeneratedOnly)
    \/ \E pid \in Callers : FreeSlot(s) /\ ReadyIssue(s, pid)
    \/ ReadyStep(s, GeneratedOnly)
    \/ Return(s)

SpecSettings == Init /\ [][NextSettings]_vars

\* submissions: whoever sends the request (an active player, an inactive
\* one, a player of another room), with an empty text or one of two texts
SubmitCallers == {"p2", "p3", Outsider}
SubmitInputs == {"", "a", "b"}

NextSubmit ==
  \E s \in Slots :
    \/ FreeSlot(s) /\ AdvanceIssue(s, HOST)
    \/ AdvanceStep(s)
    \/ \E pid \in SubmitCallers, input \in SubmitInputs :
         FreeSlot(s) /\ SubmitIssue(s, pid, input)
    \/ SubmitStep(s)
    \/ Return(s)

SpecSubmit == InitGame /\ [][NextSubmit]_vars

\* host-only requests sent by every player of the room, one at a time
NextHostOnly ==
  \/ \E pid \in Players : StartIssue(1, pid)
  \/ \E pid \in Players : RerollIssue(1, pid)
  \/ AdvanceIssue(1, HOST)
  \/ StartStep(1, GeneratedOnly)
  \/ RerollStep(1, PromptOutcomes)
  \/ AdvanceStep(1)
  \/ Return(1)

SpecHostOnly == Init /\ [][NextHostOnly]_vars

\* create and join: a room "AAAA" that create and six joins have filled to
\* one player below max_players (one more player row is inactive), and the
\* requests that create one more room and join either
JoinCodes == {"AAAA", "BBBB"}
CreateNames == {"", "a"}
JoinNames == {"", "a", "h", "i"}
JoinCodeInputs == JoinCodes \cup {"", "ZZZZ"}

InitRooms ==
  /\ room = [status |-> "LOBBY", ended_at |-> Null, is_family_friendly |-> FALSE,
             total_rounds |-> Null, round_seconds |-> Null]
  /\ players = [p \in Players |->
                  [is_host |-> p = HOST, is_active |-> p # "p3", is_ready |-> FALSE]]
  /\ rounds = <<>>
  /\ nextRoundId = 1
  /\ subs = {}
  /\ req = [s \in Slots |-> Idle]
  /\ view = [c \in Clients |-> [status |-> "LOBBY", round |-> Null, advancing |-> FALSE]]
  /\ lastAdvanceKey = [c \in Clients |-> Null]
  /\ votes = {} /\ scores = {}
  /\ rooms \in {{[join_code |-> "AAAA", status |-> st, max_players |-> CreateMaxPlayers]} :
                  st \in {"LOBBY", "IN_GAME", "ENDED"}}
  /\ members =
       {[room_id |-> "AAAA", display_name |-> n, is_host |-> n = "a", is_active |-> TRUE] :
          n \in {"a", "b", "c", "d", "e", "f", "g"}}
       \cup {[room_id |-> "AAAA", display_name |-> "z", is_host |-> FALSE,
               is_active |-> FALSE]}
  /\ codeGen = NoCodeGen
  /\ twin = NoTwin

NextRooms ==
  \E s \in Slots :
    \/ \E name \in CreateNames : FreeSlot(s) /\ CreateIssue(s, name)
    \/ CreateStep(s, JoinCodes, StoreOutcomes, StoreOutcomes)
    \/ \E name \in JoinNames, joinCode \in JoinCodeInputs :
         FreeSlot(s) /\ JoinIssue(s, name, joinCode)
    \/ JoinStep(s)
    \/ Return(s)

SpecRooms == InitRooms /\ [][NextRooms]_vars

\* games, rematches and advance requests of any caller (the host, an
\* inactive player, a player of another room), two at a time
AdvanceCallers == {HOST, "p3", Outsider}

NextRace ==
  \E s \in Slots :
    \/ FreeSlot(s) /\ StartIssue(s, HOST)
    \/ StartStep(s, GeneratedOnly)
    \/ \E pid \in AdvanceCallers : FreeSlot(s) /\ AdvanceIssue(s, pid)
    \/ AdvanceStep(s)
    \/ FreeSlot(s) /\ RematchIssue(s, HOST)
    \/ RematchStep(s)
    \/ Return(s)

SpecRace == Init /\ [][NextRace]_vars

\* calls of generateJoinCode with every length up to MaxCodeLength
NextJoinCode ==
  \/ \E length \in 0..MaxCodeLength : GenerateJoinCodeCall(length)
  \/ GenerateJoinCodeLoop
  \/ GenerateJoinCodeReturn

\* the function reads and writes no row: the store is the fresh lobby
InitJoinCode == Init /\ room.total_rounds = Null

SpecJoinCode == InitJoinCode /\ [][NextJoinCode]_vars

\* rounds created and rerolled with whatever the remote model answers: a
\* failed call, no text, quotes and blanks only, a text of 3 characters
\* once sanitized, a text of 7
GeneratorResults ==
  {Null, Some(<<>>), Some(<<" ", "'", "\t">>),
   Some(<<"\"", "a", " ", "\t", "b", "\"">>),
   Some(<<" ", "a", "b", "c", "d", "\t", " ", "e", "f", "'">>)}

StartPromptTexts == UNION {PromptTexts(generatePrompt(res)) : res \in GeneratorResults}
RerollPromptTexts ==
  UNION {PromptTexts(generateFamilyFriendlyPrompt(res)) : res \in GeneratorResults}

NextPrompt ==
  \/ StartIssue(1, HOST)
  \/ \E pid \in Callers : ReadyIssue(1, pid)
  \/ RerollIssue(1, HOST)
  \/ AdvanceIssue(1, HOST)
  \/ StartStep(1, StartPromptTexts)
  \/ ReadyStep(1, StartPromptTexts)
  \/ RerollStep(1, RerollPromptTexts)
  \/ AdvanceStep(1)
  \/ Return(1)

SpecPrompt == Init /\ [][NextPrompt]_vars

\* a game under way whose phase updates the store may refuse
NextStoreError ==
  \E s \in Slots :
    \/ \E pid \in Callers : FreeSlot(s) /\ AdvanceIssue(s, pid)
    \/ AdvanceRoom(s)
    \/ AdvanceRound(s)
    \/ AdvanceUpdateStore(s, StoreOutcomes)
    \/ AdvanceEnd(s)
    \/ Return(s)

SpecStoreError == InitGame /\ [][NextStoreError]_vars

\* a lobby whose game a ready-toggle request of either variant starts, and
\* the clients' timers; the ready-toggle requests run one after another
NextProgress ==
  \/ \E pid \in Callers : EarlyReadyIssue(1, pid)
  \/ \E pid \in Callers : ReadyIssue(1, pid)
  \/ EarlyReadyStep(1, GeneratedOnly)
  \/ ReadyStep(1, GeneratedOnly)
  \/ \E s \in Slots : AdvanceStep(s) \/ Return(s)
  \/ \E c \in Clients : ClientStep(c)

\* every client stays connected: its fetches come through and its timeout
\* runs (a request finds a connection whenever one is free again and
\* again); every request sent is handled to its end and answered
FairProgress ==
  /\ \A c \in Clients :
       /\ WF_vars(ClientRefreshRoom(c))
       /\ WF_vars(ClientLoadLatestRound(c))
       /\ SF_vars(TimerFire(c))
  /\ \A s \in Slots : WF_vars(AdvanceStep(s)) /\ WF_vars(Return(s))
  /\ WF_vars(EarlyReadyStep(1, GeneratedOnly))
  /\ WF_vars(ReadyStep(1, GeneratedOnly))

SpecProgress == Init /\ [][NextProgress]_vars /\ FairProgress

\* the host presses "Start next round" (rendered for the host while the
\* page's room is IN_GAME, disabled while `starting` is set) once the latest
\* round is in RESULTS and the game has not ended
HostStartRound(c) ==
  /\ c = HOST
  /\ view[c].status = "IN_GAME"
  /\ room.status # "ENDED"
  /\ Len(rounds) > 0 /\ \A r \in LatestRounds : r.phase = "RESULTS"
  /\ \A t \in Slots : req[t].kind # "start"
  /\ \E s \in Slots : FreeSlot(s) /\ StartIssue(s, c)

\* a game under way whose total_rounds is set
InitTermination == InitGame /\ room.total_rounds # Null

\* a whole game: the clients' timers, the host's Continue and Start buttons
NextTermination ==
  \/ HostStartRound(HOST)
  \/ ClientContinue(HOST)
  \/ \E s \in Slots : StartStep(s, GeneratedOnly) \/ AdvanceStep(s) \/ Return(s)
  \/ \E c \in Clients : ClientStep(c)

\* the host keeps pressing its buttons, the clients' fetches come through,
\* their timers keep firing, every request is handled to its end
FairTermination ==
  /\ SF_vars(HostStartRound(HOST))
  /\ SF_vars(ClientContinue(HOST))
  /\ \A c \in Clients :
       /\ WF_vars(ClientRefreshRoom(c))
       /\ WF_vars(ClientLoadLatestRound(c))
       /\ SF_vars(TimerFire(c))
  /\ \A s \in Slots :
       /\ WF_vars(StartStep(s, GeneratedOnly))
       /\ WF_vars(AdvanceStep(s))
       /\ WF_vars(Return(s))

SpecTermination == InitTermination /\ [][NextTermination]_vars /\ FairTermination

\* a request is sent; obs notes the round rows and the room's status as they
\* are before the request (no handler reads it)
ObservedIssue(s, kind, pid, pc) ==
  /\ req[s].pc = "idle"
  /\ req' = [req EXCEPT ![s] =
       [Idle EXCEPT !.kind = kind, !.pid = pid, !.pc = pc,
                    !.obs = Some([rounds |-> rounds, status |-> room.status])]]
  /\ UNCHANGED <<room, players, rounds, nextRoundId, subs, view, lastAdvanceKey, scoring, directory, library>>

\* the store reports an error for the write of this step and changes no
\* row; the handler answers with the given status
StoreRefuses(s, kind, pc, code) ==
  /\ At(s, kind, pc)
  /\ req' = [req EXCEPT ![s] = [Respond(s, code) EXCEPT !.err = "store"]]
  /\ UNCHANGED <<room, players, rounds, nextRoundId, subs, view, lastAdvanceKey, scoring, directory, library>>

\* start round: if (roundErr || !newRound) -> 500
StartInsertStore(s, texts, outcomes) ==
  \E outcome \in outcomes :
    IF outcome = "ok" THEN StartInsert(s, texts)
    ELSE StoreRefuses(s, "start", "s_insert", 500)

\* start round: if (updateErr) -> 500
StartStatusStore(s, outcomes) ==
  \E outcome \in outcomes :
    IF outcome = "ok" THEN StartStatus(s)
    ELSE StoreRefuses(s, "start", "s_status", 500)

\* start round: the result of the reset is not looked at
StartResetStore(s, outcomes) ==
  \E outcome \in outcomes :
    IF outcome = "ok" THEN StartReset(s)
    ELSE StoreRefuses(s, "start", "s_reset", 200)

\* ready: if (toggleErr) -> 500
ReadyToggleStore(s, outcomes) ==
  \E outcome \in outcomes :
    IF outcome = "ok" THEN ReadyToggle(s)
    ELSE StoreRefuses(s, "ready", "r_toggle", 500)

\* ready: if (insertErr) -> 500
ReadyInsertStore(s, texts, outcomes) ==
  \E outcome \in outcomes :
    IF outcome = "ok" THEN ReadyInsert(s, texts)
    ELSE StoreRefuses(s, "ready", "r_insert", 500)

\* ready: if (roomUpdateErr) -> 500
ReadyStatusStore(s, outcomes) ==
  \E outcome \in outcomes :
    IF outcome = "ok" THEN ReadyStatus(s)
    ELSE StoreRefuses(s, "ready", "r_status", 500)

\* ready: the result of the reset is not looked at
ReadyResetStore(s, outcomes) ==
  \E outcome \in outcomes :
    IF outcome = "ok" THEN ReadyReset(s)
    ELSE StoreRefuses(s, "ready", "r_reset", 200)

\* start-round and ready-toggle requests, one at a time, whose writes the
\* store may refuse
NextAtomicity ==
  \/ \E pid \in Callers : ObservedIssue(1, "start", pid, "s_room")
  \/ \E pid \in Players : ObservedIssue(1, "ready", pid, "r_room")
  \/ StartRoom(1) \/ StartLast(1)
  \/ StartInsertStore(1, GeneratedOnly, StoreOutcomes)
  \/ StartStatusStore(1, StoreOutcomes)
  \/ StartResetStore(1, StoreOutcomes)
  \/ ReadyRoom(1) \/ ReadyPlayer(1)
  \/ ReadyToggleStore(1, StoreOutcomes)
  \/ ReadyActive(1) \/ ReadyLast(1)
  \/ ReadyInsertStore(1, GeneratedOnly, StoreOutcomes)
  \/ ReadyStatusStore(1, StoreOutcomes)
  \/ ReadyResetStore(1, StoreOutcomes)
  \/ Return(1)

SpecAtomicity == Init /\ [][NextAtomicity]_vars

-----------------------------------------------------------------------------
(* Properties *)

Successor(p) == PhaseOrder[PhaseIndex(p) + 1]
Done(s, kind) == req[s].kind = kind /\ req[s].pc = "done"

\* C1: when several clients saw the same round in the same phase P (PROMPT
\* or GENERATING) with the same phase_ends_at and each sent one timer-driven
\* advance request, then once these requests are answered the round is
\* exactly one phase after P.
C1_TimerFanOutMovesOnePhase ==
  \A s, t \in Slots :
    (/\ s # t
     /\ Done(s, "advance") /\ Done(t, "advance")
     /\ req[s].obs # Null /\ req[s].obs = req[t].obs)
    => RoundById(Get(req[s].obs).id).phase = Successor(Get(req[s].obs).phase)

\* C2: two advance requests that both read the latest round in PROMPT and
\* both ran their conditional update: exactly one update changed the row,
\* the other returned updated = null, both were answered ok, and the round
\* is in GENERATING with a phase_ends_at.
BothReadPrompt(s, t) ==
  /\ s # t
  /\ Done(s, "advance") /\ Done(t, "advance")
  /\ req[s].rnd # Null /\ req[t].rnd # Null
  /\ Get(req[s].rnd).id = Get(req[t].rnd).id
  /\ Get(req[s].rnd).phase = "PROMPT" /\ Get(req[t].rnd).phase = "PROMPT"

C2_OneUpdateWins ==
  \A s, t \in Slots :
    BothReadPrompt(s, t) =>
      /\ (req[s].updated = Null) # (req[t].updated = Null)
      /\ req[s].code = 200 /\ req[t].code = 200
      /\ RoundById(Get(req[s].rnd).id).phase = "GENERATING"
      /\ RoundById(Get(req[s].rnd).id).phase_ends_at # Null

C2_Witness == \E s, t \in Slots : BothReadPrompt(s, t)

\* C3: every change of a round's phase goes to the next phase of PROMPT,
\* GENERATING, REVEAL, RESULTS: never backward, never over a phase, never
\* out of RESULTS, and no round is ever in VOTING.
C3_PhaseStepsForward ==
  [][\A i \in 1..Len(rounds') :
       /\ rounds'[i].phase # "VOTING"
       /\ (i <= Len(rounds) /\ rounds'[i].id = rounds[i].id
             /\ rounds'[i].phase # rounds[i].phase)
            => /\ rounds[i].phase # "RESULTS"
               /\ rounds'[i].phase = Successor(rounds[i].phase)]_vars

C3_Witness ==
  \E i \in 1..Len(rounds) : rounds[i].phase = "RESULTS" /\ room.status = "IN_GAME"

\* C4: a submission row is created or overwritten only while its round is
\* in GENERATING.
C4_SubmissionOnlyInGenerating ==
  [][\A x \in subs' \ subs : RoundById(x.round_id).phase = "GENERATING"]_vars

\* C5: an advance request that moves the latest round from REVEAL to RESULTS
\* goes on to set the room ENDED with an ended_at when round_number >=
\* total_rounds (3 if unset), and otherwise leaves the room as it is, IN_GAME.
PerformsRevealToResults(s) ==
  /\ At(s, "advance", "a_update")
  /\ req'[s].pc # "a_update"
  /\ Get(req[s].rnd).phase = "REVEAL"
  /\ \E r \in LatestRounds : r.id = Get(req[s].rnd).id /\ r.phase = "REVEAL"

C5_LastRoundEndsGame ==
  [][\A s \in Slots :
       /\ PerformsRevealToResults(s) =>
            IF Get(req[s].rnd).round_number >= Coalesce(room.total_rounds, 3)
            THEN req'[s].pc = "a_end"
            ELSE /\ req'[s].pc = "done"
                 /\ room' = room /\ room.status = "IN_GAME"
       /\ (At(s, "advance", "a_end") /\ req'[s].pc # "a_end") =>
            /\ room'.status = "ENDED" /\ room'.ended_at # Null
            /\ req'[s].pc = "done"]_vars

C5_Witness ==
  /\ room.status = "ENDED" /\ room.ended_at # Null
  /\ Len(rounds) = 2
  /\ \A i \in 1..2 : rounds[i].round_number = i /\ rounds[i].phase = "RESULTS"
  /\ \E s \in Slots : Done(s, "advance") /\ req[s].updated # Null

\* C6: a ready-toggle request creates its round only in a state where the
\* room has an active player, every active player is ready, the room is in
\* LOBBY (never IN_GAME) and the room has no round yet.
C6_AutoStartOnlyWhenAllReady ==
  [][\A s \in Slots :
       (At(s, "ready", "r_insert") /\ req'[s].pc = "r_status") =>
          /\ ActivePlayers # {}
          /\ \A p \in ActivePlayers : players[p].is_ready
          /\ req[s].st = "LOBBY" /\ room.status # "IN_GAME"
          /\ rounds = <<>>]_vars

\* C7: a start-round request of the host that succeeds inserts exactly one
\* round, numbered one more than the highest round_number it found (1 when
\* it found no round), in PROMPT with a phase_ends_at; it then sets the room
\* IN_GAME, and its last step leaves every player with is_ready = false.
C7_StartCreatesNextRound ==
  [][\A s \in Slots :
       /\ (At(s, "start", "s_last") /\ req'[s].pc = "s_insert") =>
            /\ players[req[s].pid].is_host
            /\ req'[s].next = (IF rounds = <<>> THEN 1 ELSE MaxRoundNumber + 1)
       /\ (At(s, "start", "s_insert") /\ req'[s].pc = "s_status") =>
            /\ Len(rounds') = Len(rounds) + 1
            /\ SubSeq(rounds', 1, Len(rounds)) = rounds
            /\ rounds'[Len(rounds')].id \notin RoundIds
            /\ rounds'[Len(rounds')].round_number = req[s].next
            /\ rounds'[Len(rounds')].phase = "PROMPT"
            /\ rounds'[Len(rounds')].phase_ends_at # Null
       /\ (req[s].kind = "start" /\ req[s].pc # "s_insert" /\ req'[s] # req[s]) =>
            rounds' = rounds
       /\ (At(s, "start", "s_status") /\ req'[s].pc = "s_reset") =>
            room'.status = "IN_GAME"
       /\ (At(s, "start", "s_reset") /\ req'[s].pc = "done") =>
            /\ req'[s].code = 200
            /\ \A p \in Players : ~players'[p].is_ready]_vars

C7_Witness ==
  /\ \E s \in Slots : Done(s, "start") /\ req[s].code = 200 /\ req[s].pid = HOST
  /\ Len(rounds) = 2 /\ rounds[1].round_number = 1 /\ rounds[2].round_number = 2
  /\ room.status = "IN_GAME"
  /\ \A p \in Players : ~players[p].is_ready

\* C8: no round is ever numbered above total_rounds (3 if unset), and a
\* start-round request whose next number would be above it is answered 400
\* and inserts nothing.
C8_RoundNumberBounded ==
  [][/\ \A i \in 1..Len(rounds') :
          rounds'[i].round_number <= Coalesce(room'.total_rounds, 3)
     /\ \A s \in Slots :
          (/\ At(s, "start", "s_last") /\ req'[s].pc # "s_last"
           /\ rounds # <<>>
           /\ MaxRoundNumber + 1 > Coalesce(room.total_rounds, 3))
          => /\ req'[s].pc = "done" /\ req'[s].code = 400
             /\ rounds' = rounds]_vars

C8_Witness ==
  /\ \E s \in Slots : Done(s, "start") /\ req[s].code = 400 /\ req[s].pid = HOST
  /\ rounds # <<>>
  /\ MaxRoundNumber = Coalesce(room.total_rounds, 3)

\* C9: at most one round of the room is in a phase other than RESULTS.
C9_AtMostOneActiveRound ==
  Cardinality({i \in 1..Len(rounds) : rounds[i].phase # "RESULTS"}) <= 1

\* C10: the round_number values of the room's rounds are exactly 1..n, with
\* no gap and no duplicate.
C10_RoundNumbersContiguous ==
  /\ Cardinality(RoundNumbers) = Len(rounds)
  /\ RoundNumbers = 1..Len(rounds)

\* C11: once a create-room or join request has completed, with success or
\* with an error, and no create request is under way, every room has
\* exactly one player with is_host = true.
Hosts(code) == {m \in MembersOf(code) : m.is_host}

C11_OneHostPerRoom ==
  (/\ \E s \in Slots : Done(s, "create") \/ Done(s, "join")
   /\ \A s \in Slots : req[s].kind = "create" => req[s].pc = "done")
  => \A r \in rooms : Cardinality(Hosts(r.join_code)) = 1

\* C12: when a rematch request of the host has completed, the room has no
\* rounds, submissions, votes or scores, it is in LOBBY with ended_at null,
\* and no player is ready.
C12_RematchClearsGame ==
  \A s \in Slots :
    (Done(s, "rematch") /\ req[s].code = 200) =>
      /\ req[s].pid = HOST
      /\ rounds = <<>> /\ subs = {} /\ votes = {} /\ scores = {}
      /\ room.status = "LOBBY" /\ room.ended_at = Null
      /\ \A p \in Players : ~players[p].is_ready

C12_Witness ==
  /\ \E s \in Slots : Done(s, "rematch") /\ req[s].code = 200
  /\ nextRoundId > 2

\* C13: a rematch request of a caller who is not the host of the room is
\* answered 403 in its first step and changes no row.
StoreRows == <<room, players, rounds, subs, votes, scores, rooms, members>>

C13_RematchHostOnly ==
  [][\A s \in Slots :
       (/\ req[s].kind = "rematch" /\ req[s].pc # "done" /\ req'[s] # req[s]
        /\ ~(req[s].pid \in Players /\ players[req[s].pid].is_host))
       => /\ req[s].pc = "m_room"
          /\ req'[s].pc = "done" /\ req'[s].code = 403
          /\ StoreRows' = StoreRows]_vars

C13_Witness ==
  /\ \E s \in Slots : Done(s, "rematch") /\ req[s].code = 403 /\ req[s].pid = "p2"
  /\ rounds # <<>> /\ subs # {} /\ room.status = "ENDED"

\* C14: a reroll request that finds the latest round in a phase other than
\* PROMPT is answered 400 and changes nothing; one that succeeds changes
\* prompt_text of the latest round only: that round's other columns, the
\* other rounds, the room and the players stay as they are.
C14_RerollFrame ==
  [][\A s \in Slots :
       /\ (/\ At(s, "reroll", "l_round") /\ req'[s] # req[s]
           /\ \A r \in LatestRounds : r.phase # "PROMPT")
          => /\ req'[s].pc = "done" /\ req'[s].code = 400
             /\ StoreRows' = StoreRows
       /\ (req[s].kind = "reroll" /\ req[s].pc \notin {"l_update", "done"}
              /\ req'[s] # req[s])
          => StoreRows' = StoreRows
       /\ (At(s, "reroll", "l_update") /\ req'[s].pc = "done" /\ req'[s].code = 200)
          => /\ room' = room /\ players' = players /\ subs' = subs
             /\ \E r \in LatestRounds : r.id = Get(req[s].rnd).id
             /\ Len(rounds') = Len(rounds)
             /\ \A i \in 1..Len(rounds) :
                  IF rounds[i].id = Get(req[s].rnd).id
                  THEN [rounds'[i] EXCEPT !.prompt_text = rounds[i].prompt_text] = rounds[i]
                  ELSE rounds'[i] = rounds[i]]_vars

C14_Witness ==
  /\ \E s \in Slots : Done(s, "reroll") /\ req[s].code = 200
  /\ \E i \in 1..Len(rounds) : rounds[i].prompt_text \in pickRandomPrompt

\* C15: a start-round or reroll request of a player of the room who is not
\* its host is answered 403.
NonHostRequest(s) ==
  /\ req[s].kind \in {"start", "reroll"}
  /\ req[s].pid \in Players /\ ~players[req[s].pid].is_host

C15_NonHostAnswered403 ==
  \A s \in Slots : (NonHostRequest(s) /\ req[s].pc = "done") => req[s].code = 403

\* C15, as the handlers have it: such a request changes no row and never
\* gets to a write; it is answered 400 when the room is ENDED, when the
\* player is not active or, for start-round, when the next round number
\* is above total_rounds, and 403 otherwise.
NextNumberAboveTotal ==
  (IF rounds = <<>> THEN 0 ELSE MaxRoundNumber) + 1 > Coalesce(room.total_rounds, 3)

C15_NonHostRejected ==
  [][\A s \in Slots :
       (NonHostRequest(s) /\ req[s].pc # "done" /\ req'[s] # req[s]) =>
         /\ StoreRows' = StoreRows
         /\ req'[s].pc \in {"s_last", "done"}
         /\ req'[s].pc = "done" =>
              req'[s].code =
                IF \/ room.status = "ENDED"
                   \/ ~players[req[s].pid].is_active
                   \/ req[s].kind = "start" /\ NextNumberAboveTotal
                THEN 400 ELSE 403]_vars

C15_Witness ==
  /\ \E s \in Slots : Done(s, "start") /\ req[s].pid = "p2" /\ req[s].code = 403
  /\ room.status = "IN_GAME" /\ rounds # <<>>

\* C16: is_family_friendly of the room changes only in the update of a
\* settings request of the room's host, and only in a state where the
\* room's status is LOBBY.
C16_SettingsOnlyInLobby ==
  [][room'.is_family_friendly # room.is_family_friendly =>
       /\ \E s \in Slots :
            /\ At(s, "settings", "t_update") /\ req'[s].pc = "done"
            /\ players[req[s].pid].is_host
       /\ room.status = "LOBBY"]_vars

\* C17: there is at most one submission row per round and player, and a
\* submit that succeeds where the player has a row for the round replaces
\* that row's prompt_input and adds no row.
SameKey(x, y) == x.round_id = y.round_id /\ x.player_id = y.player_id

C17_OneSubmissionPerPlayer ==
  [][/\ \A x, y \in subs' : SameKey(x, y) => x = y
     /\ \A s \in Slots :
          (/\ At(s, "submit", "b_upsert") /\ req'[s].pc = "done"
           /\ \E x \in subs : x.round_id = Get(req[s].rnd).id /\ x.player_id = req[s].pid)
          => /\ Cardinality(subs') = Cardinality(subs)
             /\ \E x \in subs' :
                  /\ x.round_id = Get(req[s].rnd).id /\ x.player_id = req[s].pid
                  /\ x.prompt_input = req[s].input]_vars

C17_Witness ==
  /\ \E s, t \in Slots :
       /\ s # t /\ Done(s, "submit") /\ Done(t, "submit")
       /\ req[s].code = 200 /\ req[t].code = 200
       /\ req[s].pid = "p2" /\ req[t].pid = "p2"
       /\ req[s].rnd = req[t].rnd
  /\ Cardinality(subs) = 1

\* C18: the player of every submission row is an active player of the
\* room.
C18_SubmitterIsActivePlayer ==
  \A x \in subs : x.player_id \in Players /\ players[x.player_id].is_active

\* C19: a join request with a name that looks up and counts a room with
\* max_players active players or more inserts no player and is answered
\* 400, whether the name is taken in the room or not.
RoomIsFull(code) ==
  /\ RoomByCode(code) # {}
  /\ ActiveCount(code) >= Get(RoomByCode(code)).max_players

C19_FullRoomRejectsJoin ==
  [][\A s \in Slots :
       (/\ req[s].kind = "join" /\ req[s].pc \in {"j_room", "j_count"}
        /\ req'[s] # req[s]
        /\ req[s].name # "" /\ RoomIsFull(req[s].joinCode))
       => /\ members' = members /\ rooms' = rooms
          /\ \/ req[s].pc = "j_room" /\ req'[s].pc = "j_count"
             \/ req'[s].pc = "done" /\ req'[s].code = 400]_vars

C19_Witness ==
  \E s \in Slots, name \in {"a", "i"} :
    /\ Done(s, "join") /\ req[s].code = 400
    /\ req[s].name = name /\ req[s].joinCode = "AAAA"
    /\ ActiveCount("AAAA") = CreateMaxPlayers
    /\ NameTaken("AAAA", name) <=> name = "a"

\* C20: no two player rows of a room have the same display name; a join
\* whose insert finds the name in its room is answered 400 and inserts
\* nothing, and one whose insert finds the name in another room only
\* succeeds.
C20_NamesUniquePerRoom ==
  [][/\ \A m, n \in members' :
          (m.room_id = n.room_id /\ m.display_name = n.display_name) => m = n
     /\ \A s \in Slots :
          (At(s, "join", "j_insert") /\ req'[s] # req[s]) =>
            IF \E m \in members :
                 m.room_id = req[s].joinCode /\ m.display_name = req[s].name
            THEN req'[s].code = 400 /\ members' = members
            ELSE /\ req'[s].code = 200
                 /\ members' = members \cup
                      {[room_id |-> req[s].joinCode, display_name |-> req[s].name,
                        is_host |-> FALSE, is_active |-> TRUE]}]_vars

C20_Witness ==
  /\ \E s \in Slots :
       /\ Done(s, "join") /\ req[s].code = 200
       /\ req[s].name = "h" /\ req[s].joinCode = "BBBB"
  /\ NameTaken("AAAA", "h") /\ NameTaken("BBBB", "h")
  /\ \E s \in Slots :
       /\ Done(s, "join") /\ req[s].code = 400
       /\ req[s].name = "h" /\ req[s].joinCode = "BBBB"

\* C21: a create-room request makes at most 5 passes of its loop; a pass
\* goes on to the next one only when its code is taken (and fewer than 5
\* passes were made), the first pass whose code is free inserts exactly one
\* room and goes on to insert exactly one host, the 5th pass whose code is
\* taken answers 500, an insert error that is no duplicate answers 500 at
\* once, and neither of the two creates a room.
C21_CreateRetriesOnDuplicate ==
  [][\A s \in Slots :
       /\ (At(s, "create", "c_room") /\ req'[s] # req[s]) =>
            /\ req[s].attempt < 5
            /\ \/ /\ req'[s].pc = "c_host"
                  /\ RoomByCode(req'[s].joinCode) = {}
                  /\ rooms' = rooms \cup {[join_code |-> req'[s].joinCode,
                                            status |-> "LOBBY", max_players |-> 8]}
               \/ /\ req'[s].pc = "c_room"
                  /\ req'[s].attempt = req[s].attempt + 1 /\ req'[s].attempt < 5
                  /\ RoomByCode(req'[s].joinCode) # {}
                  /\ rooms' = rooms
               \/ /\ req'[s].pc = "done" /\ req'[s].code = 500
                  /\ req'[s].err = "exhausted" /\ req[s].attempt = 4
                  /\ rooms' = rooms
               \/ /\ req'[s].pc = "done" /\ req'[s].code = 500
                  /\ req'[s].err = "store"
                  /\ rooms' = rooms
       /\ (At(s, "create", "c_host") /\ req'[s] # req[s]) =>
            /\ req'[s].pc = "done" /\ rooms' = rooms
            /\ req'[s].code = 200 =>
                 /\ Hosts(req[s].joinCode) = {}
                 /\ members' = members \cup
                      {[room_id |-> req[s].joinCode, display_name |-> req[s].name,
                        is_host |-> TRUE, is_active |-> TRUE]}
       /\ (At(s, "create", "c_name") /\ req'[s] # req[s]) => rooms' = rooms]_vars

C21_Witness ==
  \E s, t \in Slots :
    /\ Done(s, "create") /\ req[s].code = 500 /\ req[s].err = "exhausted"
    /\ Done(t, "create") /\ req[t].code = 200 /\ req[t].attempt > 0
    /\ Cardinality(rooms) = 2

\* C22: an advance request that reads a room whose status is not IN_GAME
\* is answered ok (200) in that step and changes no row, whoever sent it
\* and whatever the latest round is.
C22_AdvanceNoopOutsideGame ==
  [][\A s \in Slots :
       (At(s, "advance", "a_room") /\ req'[s] # req[s] /\ room.status # "IN_GAME")
       => /\ req'[s].pc = "done" /\ req'[s].code = 200
          /\ StoreRows' = StoreRows]_vars

C22_Witness ==
  \E s, t \in Slots :
    /\ Done(s, "advance") /\ req[s].pid = Outsider /\ req[s].code = 200
    /\ Done(t, "advance") /\ req[t].pid = "p3" /\ req[t].code = 200
    /\ room.status = "LOBBY"
    /\ \E r \in LatestRounds : r.phase = "GENERATING"

\* C23: a step that moves a round from PROMPT to GENERATING sets its
\* phase_ends_at to round_seconds (45 if unset) seconds after the write, a
\* step that moves it to REVEAL or to RESULTS sets it to null; after every
\* step a round in GENERATING has a phase_ends_at and a round in REVEAL or
\* RESULTS has none.
C23_PhaseEndsAtMatchesPhase ==
  [][/\ \A i \in 1..Len(rounds') :
          /\ rounds'[i].phase = "GENERATING" => rounds'[i].phase_ends_at # {}
          /\ rounds'[i].phase \in {"REVEAL", "RESULTS"} => rounds'[i].phase_ends_at = {}
     /\ \A i \in 1..Len(rounds) :
          (i <= Len(rounds') /\ rounds'[i].id = rounds[i].id
             /\ rounds'[i].phase # rounds[i].phase) =>
            rounds'[i].phase_ends_at =
              IF rounds[i].phase = "PROMPT"
              THEN {(IF room.round_seconds = {} THEN 45
                     ELSE CHOOSE n \in room.round_seconds : TRUE) * 1000}
              ELSE {}]_vars

C23_Witness ==
  /\ Len(rounds) = 2
  /\ rounds[1].phase = "RESULTS" /\ rounds[1].phase_ends_at = {}
  /\ rounds[2].phase = "GENERATING" /\ rounds[2].phase_ends_at = {45000}
  /\ room.round_seconds = {}

\* C24: an advance request whose phase update the store refuses with an
\* error is answered with an error (no ok) in that step, which leaves the
\* rounds as they are.
C24_StoreErrorAnswered ==
  [][\A s \in Slots :
       (At(s, "advance", "a_update") /\ req'[s].err = "store") =>
         /\ rounds' = rounds
         /\ req'[s].pc = "done" /\ req'[s].code >= 400]_vars

\* C25: whatever the remote generator answers, every round's prompt_text
\* is a text the generator produced without failing (6 characters or more
\* once sanitized) or an entry of the static PROMPTS list.
C25_FallbackOnGeneratorFailure ==
  \A i \in 1..Len(rounds) :
    \/ \E j \in 1..Len(PROMPTS) : rounds[i].prompt_text = PROMPTS[j]
    \/ Len(rounds[i].prompt_text) >= 6

\* C26: what generateJoinCode(n) returns has exactly n characters, each one
\* of the 32 of ABCDEFGHJKLMNPQRSTUVWXYZ23456789 and none of O, 0, I, 1.
C26_JoinCodeFromAlphabet ==
  [][(codeGen.running /\ ~codeGen'.running) =>
       /\ Len(codeGen'.out) = codeGen'.length
       /\ \A j \in 1..Len(codeGen'.out) :
            /\ codeGen'.out[j] \in
                 {"A", "B", "C", "D", "E", "F", "G", "H", "J", "K", "L", "M", "N",
                  "P", "Q", "R", "S", "T", "U", "V", "W", "X", "Y", "Z",
                  "2", "3", "4", "5", "6", "7", "8", "9"}
            /\ codeGen'.out[j] \notin {"O", "0", "I", "1"}
       /\ Cardinality({alphabet[j] : j \in 1..Len(alphabet)}) = 32]_vars

C26_Witness ==
  /\ ~codeGen.running /\ codeGen.length = 3
  /\ codeGen.out = <<"A", "9", "Z">>

\* C27: a round goes from REVEAL to RESULTS only in the update of an
\* advance request that was sent by a client whose page showed the round
\* in REVEAL (the Continue button), never in that of a request a client's
\* timer sent for PROMPT or GENERATING.
C27_ResultsOnlyByContinue ==
  [][\A i \in 1..Len(rounds) :
       (i <= Len(rounds') /\ rounds[i].phase = "REVEAL" /\ rounds'[i].phase = "RESULTS")
       => \E s \in Slots :
            /\ At(s, "advance", "a_update") /\ req'[s] # req[s]
            /\ req[s].obs # Null /\ Get(req[s].obs).phase = "REVEAL"]_vars

\* C28: a room whose status is ENDED has a latest round, in RESULTS and
\* numbered total_rounds (3 if unset) or above.
C28_EndedOnlyAfterLastResults ==
  room.status = "ENDED" =>
    \E r \in LatestRounds :
      /\ r.phase = "RESULTS"
      /\ r.round_number >= (IF room.total_rounds = {} THEN 3
                            ELSE CHOOSE n \in room.total_rounds : TRUE)

\* C29: while no request is under way, the room is in LOBBY exactly when
\* it has no round.
C29_LobbyIffNoRounds ==
  (\A s \in Slots : req[s].pc \in {"idle", "done"}) =>
    (room.status = "LOBBY" <=> rounds = <<>>)

\* C30: the prompt_text of a round changes only while the round is in
\* PROMPT.
C30_PromptFixedAfterPrompt ==
  [][\A i \in 1..Len(rounds) :
       (i <= Len(rounds') /\ rounds'[i].id = rounds[i].id
          /\ rounds'[i].prompt_text # rounds[i].prompt_text)
       => rounds[i].phase = "PROMPT"]_vars

\* C31: no room has more active players than its max_players.
C31_ActiveWithinMaxPlayers ==
  \A r \in rooms :
    Cardinality({m \in members : m.room_id = r.join_code /\ m.is_active})
      <= r.max_players

\* C32: when a ready-toggle request that auto-starts completes, the room is
\* IN_GAME and has exactly one round, numbered 1, in PROMPT with a
\* phase_ends_at, and no player is ready.
C32_AutoStartPostcondition ==
  [][\A s \in Slots :
       (At(s, "ready", "r_reset") /\ req'[s].pc = "done") =>
         /\ req'[s].code = 200
         /\ room'.status = "IN_GAME"
         /\ Len(rounds') = 1
         /\ rounds'[1].round_number = 1 /\ rounds'[1].phase = "PROMPT"
         /\ rounds'[1].phase_ends_at # {}
         /\ \A p \in Players : ~players'[p].is_ready]_vars

C32_Witness ==
  /\ \E s \in Slots : Done(s, "ready") /\ req[s].code = 200
  /\ room.status = "IN_GAME" /\ Len(rounds) = 1 /\ rounds[1].phase = "PROMPT"
  /\ \A p \in Players : ~players[p].is_ready

\* the round at position i of the store is in the given phase
RoundInPhase(i, phase) == i <= Len(rounds) /\ rounds[i].phase = phase

\* C33: while the room is IN_GAME, the clients stay connected and the advance
\* requests are delivered and answered, every round in PROMPT eventually
\* reaches GENERATING, and every round in GENERATING eventually reaches
\* REVEAL, by the clients' timers alone.
C33_TimerDrivenProgress ==
  \A i \in 1..MaxRounds :
    /\ (room.status = "IN_GAME" /\ RoundInPhase(i, "PROMPT"))
         ~> RoundInPhase(i, "GENERATING")
    /\ (room.status = "IN_GAME" /\ RoundInPhase(i, "GENERATING"))
         ~> RoundInPhase(i, "REVEAL")

\* C34: with the host starting the next round whenever the latest one is in
\* RESULTS, continuing whenever it is in REVEAL, and the clients' timers
\* firing, the room eventually is ENDED, and whenever it is ENDED exactly
\* total_rounds rounds exist and the latest one is in RESULTS.
C34_GameTerminates ==
  /\ <>(room.status = "ENDED")
  /\ [](room.status = "ENDED" =>
          /\ Len(rounds) = TotalRounds
          /\ \A r \in LatestRounds : r.phase = "RESULTS")

\* C35: a start-round or ready-toggle request that is answered with an error
\* status has added no round row and has left the room's status as it was
\* before the request.
C35_StartAllOrNothing ==
  \A s \in Slots :
    (/\ req[s].pc = "done" /\ req[s].kind \in {"start", "ready"}
     /\ req[s].code >= 400)
    => /\ rounds = Get(req[s].obs).rounds
       /\ room.status = Get(req[s].obs).status

-----------------------------------------------------------------------------
(* Every handler, one request at a time, with the rows as they were when   *)
(* the request was sent noted in the request's obs                         *)

Request(kind, pid, pc) == [Idle EXCEPT !.kind = kind, !.pid = pid, !.pc = pc]

\* request r is sent; obs notes all rows as they are before the request
\* (no handler reads it)
SendObserved(s, r) ==
  /\ req[s].pc = "idle"
  /\ req' = [req EXCEPT ![s] = [r EXCEPT !.obs = Some(StoreRows)]]
  /\ UNCHANGED <<room, players, rounds, nextRoundId, subs, view, lastAdvanceKey, scoring, directory, library>>

\* a lobby with total_rounds = 1, beside it the rooms create and join work on
InitHandlers ==
  /\ room = [status |-> "LOBBY", ended_at |-> Null, is_family_friendly |-> FALSE,
             total_rounds |-> Some(1), round_seconds |-> Some(CustomRoundSeconds)]
  /\ players = [p \in Players |->
                  [is_host |-> p = HOST, is_active |-> p # "p3", is_ready |-> FALSE]]
  /\ rounds = <<>>
  /\ nextRoundId = 1
  /\ subs = {}
  /\ req = [s \in Slots |-> Idle]
  /\ view = [c \in Clients |-> [status |-> "LOBBY", round |-> Null, advancing |-> FALSE]]
  /\ lastAdvanceKey = [c \in Clients |-> Null]
  /\ votes = {} /\ scores = {}
  /\ rooms \in {{[join_code |-> "AAAA", status |-> st, max_players |-> CreateMaxPlayers]} :
                  st \in {"LOBBY", "ENDED"}}
  /\ members =
       {[room_id |-> "AAAA", display_name |-> n, is_host |-> n = "a", is_active |-> TRUE] :
          n \in {"a", "b", "c", "d", "e", "f", "g"}}
  /\ codeGen = NoCodeGen
  /\ twin = NoTwin

\* who sends which request: the host, a second player, an inactive player
HandlerCallers == {HOST, "p2"}
HandlerJoinCodes == {"AAAA", "ZZZZ", ""}

NextHandlers ==
  \/ \E pid \in Players : SendObserved(1, Request("start", pid, "s_room"))
  \/ \E pid \in Players : SendObserved(1, Request("ready", pid, "r_room"))
  \/ \E pid \in {HOST, "p3"} : SendObserved(1, Request("advance", pid, "a_room"))
  \/ \E input \in {"", "a"} :
       SendObserved(1, [Request("submit", "p2", "b_room") EXCEPT !.input = input])
  \/ \E pid \in HandlerCallers : SendObserved(1, Request("reroll", pid, "l_room"))
  \/ \E pid \in HandlerCallers :
       SendObserved(1, [Request("settings", pid, "t_room") EXCEPT !.isFamilyFriendly = TRUE])
  \/ \E pid \in HandlerCallers :
       /\ nextRoundId <= MaxRematchRoundId
       /\ SendObserved(1, Request("rematch", pid, "m_room"))
  \/ \E name \in CreateNames :
       SendObserved(1, [Request("create", HOST, "c_name") EXCEPT !.name = name])
  \/ \E name \in JoinNames, joinCode \in HandlerJoinCodes :
       SendObserved(1, [Request("join", HOST, "j_room") EXCEPT
                          !.name = name, !.joinCode = joinCode])
  \/ StartStep(1, GeneratedOnly)
  \/ ReadyStep(1, GeneratedOnly)
  \/ AdvanceStep(1)
  \/ SubmitStep(1)
  \/ RerollStep(1, GeneratedOnly)
  \/ SettingsStep(1)
  \/ RematchStep(1)
  \/ CreateStep(1, JoinCodes, StoreOutcomes, StoreOutcomes)
  \/ JoinStep(1)
  \/ Return(1)

SpecHandlers == InitHandlers /\ [][NextHandlers]_vars

\* C36: a request of any handler that is answered with a 4xx status has
\* written nothing: all rows are as they were when the request was sent.
C36_RejectedRequestWroteNothing ==
  \A s \in Slots :
    (req[s].pc = "done" /\ req[s].code \in 400..499) => StoreRows = Get(req[s].obs)

C36_Witness ==
  \E s \in Slots :
    /\ Done(s, "submit") /\ req[s].code = 400
    /\ Len(rounds) > 0 /\ subs # {} /\ Get(req[s].obs) = StoreRows

\* the request in slot s was sent while its room was ENDED: the game room of
\* the noted rows or, for a join, the room of the join code
SentWhileEnded(s) ==
  /\ req[s].pc \notin {"idle", "done"}
  /\ IF req[s].kind = "join"
     THEN \E r \in Get(req[s].obs)[7] :
            r.join_code = req[s].joinCode /\ r.status = "ENDED"
     ELSE req[s].kind # "create" /\ Get(req[s].obs)[1].status = "ENDED"

HostRematch(s) ==
  req[s].kind = "rematch" /\ req[s].pid \in Players /\ players[req[s].pid].is_host

\* C37: a request sent while its room is ENDED, other than a rematch by the
\* host, changes no row in any of its steps; it is answered with a 4xx
\* status, or with 200 if it is an advance request.
C37_EndedRoomFrozen ==
  [][\A s \in Slots :
       (SentWhileEnded(s) /\ ~HostRematch(s)) =>
         /\ StoreRows' = StoreRows
         /\ req'[s].pc = "done" =>
              IF req[s].kind = "advance" THEN req'[s].code = 200
              ELSE req'[s].code \in 400..499]_vars

C37_Witness ==
  \E s \in Slots :
    /\ Done(s, "advance") /\ req[s].code = 200
    /\ Get(req[s].obs)[1].status = "ENDED"
    /\ StoreRows = Get(req[s].obs)

-----------------------------------------------------------------------------
(* The two advance handlers side by side: two deployments start from the   *)
(* same rows; every advance request is sent to both, the next one when     *)
(* both have answered                                                      *)

\* phase_ends_at of a round that entered the phase by the handlers
EndsOf(phase, seconds) ==
  IF phase = "PROMPT" THEN After(PromptRevealMs)
  ELSE IF phase = "GENERATING" THEN After(seconds * 1000)
  ELSE Null

\* a lobby without rounds, or a game in its n-th round, in any phase, the
\* rounds before it in RESULTS
InitTwin ==
  /\ \E c \in RoomSettings, n \in 0..MaxRounds, phase \in {"PROMPT", "GENERATING", "REVEAL", "RESULTS"} :
       /\ n <= Coalesce(c[1], DefaultTotalRounds)
       /\ n = 0 => phase = "PROMPT"
       /\ room = [status |-> IF n = 0 THEN "LOBBY" ELSE "IN_GAME", ended_at |-> Null,
                  is_family_friendly |-> FALSE,
                  total_rounds |-> c[1], round_seconds |-> c[2]]
       /\ rounds = [i \in 1..n |->
            [id |-> i, round_number |-> i,
             phase |-> IF i < n THEN "RESULTS" ELSE phase,
             prompt_text |-> AiPrompt,
             phase_ends_at |-> IF i < n THEN Null
                               ELSE EndsOf(phase, Coalesce(c[2], DefaultRoundSeconds))]]
       /\ nextRoundId = n + 1
  /\ players = [p \in Players |->
                  [is_host |-> p = HOST, is_active |-> p # "p3", is_ready |-> FALSE]]
  /\ subs = {}
  /\ req = [s \in Slots |-> Idle]
  /\ view = [c \in Clients |-> [status |-> "LOBBY", round |-> Null, advancing |-> FALSE]]
  /\ lastAdvanceKey = [c \in Clients |-> Null]
  /\ votes = {} /\ scores = {}
  /\ rooms = {} /\ members = {}
  /\ codeGen = NoCodeGen
  /\ twin = [room |-> room, rounds |-> rounds]

\* the same request goes to both deployments
SendBoth(pid) ==
  /\ \A s \in Slots : req[s].pc = "idle"
  /\ req' = [req EXCEPT ![1] = Request("advance", pid, "a_room"),
                        ![2] = Request("advance_unguarded", pid, "u_room")]
  /\ UNCHANGED <<room, players, rounds, nextRoundId, subs, view, lastAdvanceKey, scoring, directory, library>>

NextTwin ==
  \/ \E pid \in AdvanceCallers : SendBoth(pid)
  \/ AdvanceStep(1)
  \/ UnguardedAdvanceStep(2)
  \/ \E s \in Slots : Return(s)

SpecTwin == InitTwin /\ [][NextTwin]_vars

\* what the claim compares: the room's status, whether ended_at is set, and
\* of every round its phase and whether phase_ends_at is set
Observable(rm, rs) ==
  <<rm.status, rm.ended_at # Null,
    [i \in 1..Len(rs) |-> <<rs[i].phase, rs[i].phase_ends_at # Null>>]>>

\* C38: after each advance request of a sequence sent to both handlers, one
\* request at a time, the guarded and the unguarded handler have left the
\* same round phases, the same null-ness of phase_ends_at, the same room
\* status and the same null-ness of ended_at.
C38_AdvanceVariantsEquivalent ==
  (\A s \in Slots : req[s].pc \in {"idle", "done"})
    => Observable(room, rounds) = Observable(twin.room, twin.rounds)

C38_Witness ==
  /\ Done(1, "advance") /\ Done(2, "advance_unguarded")
  /\ req[1].updated # Null
  /\ room.status = "ENDED" /\ twin.room.status = "ENDED"
  /\ Len(rounds) = 2 /\ rounds[2].phase = "RESULTS"

\* keys in the order in which a round's phases and the rounds follow each
\* other; no key comes before the first
KeyRank(key) ==
  IF key = Null THEN 0
  ELSE Get(key).id * Len(PhaseOrder) + PhaseIndex(Get(key).phase)

\* client c sends an advance request in this step
SendsAdvance(c, s) ==
  req[s].pc = "idle" /\ req'[s].pc = "a_room" /\ req'[s].pid = c

\* the request comes from the Continue button (the host's, in REVEAL)
ByContinue(c) ==
  c = HOST /\ view[c].round # Null /\ Get(view[c].round).phase = "REVEAL"

\* C39: a client's timer sends at most one advance request per key (round
\* id, phase, phase_ends_at): a request is sent only for a key other than
\* the one noted last, the key is noted with it, and the noted key only
\* moves on to later keys; a timer request is sent only while the page's
\* room is IN_GAME and its round is in PROMPT or GENERATING with a
\* phase_ends_at.
C39_OneTimerRequestPerKey ==
  [][\A c \in Clients :
       /\ lastAdvanceKey'[c] # lastAdvanceKey[c] =>
            KeyRank(lastAdvanceKey'[c]) > KeyRank(lastAdvanceKey[c])
       /\ \A s \in Slots :
            (SendsAdvance(c, s) /\ ~ByContinue(c)) =>
              /\ view[c].status = "IN_GAME"
              /\ view[c].round # Null
              /\ Get(view[c].round).phase \in {"PROMPT", "GENERATING"}
              /\ Get(view[c].round).phase_ends_at # Null
              /\ req'[s].obs = view[c].round
              /\ lastAdvanceKey[c] # req'[s].obs
              /\ lastAdvanceKey'[c] = req'[s].obs]_vars

C39_Witness ==
  \E s \in Slots :
    /\ req[s].kind = "advance" /\ req[s].pid = "p2" /\ req[s].pc = "a_room"
    /\ req[s].obs = lastAdvanceKey["p2"]
    /\ Get(req[s].obs).id = 2 /\ Get(req[s].obs).phase = "GENERATING"
    /\ lastAdvanceKey[HOST] = lastAdvanceKey["p2"]

====
